---- MODULE Spec2Model ----
(***************************************************************************)
(* Model of censor (Quickmarble/censor): the plot cache, the graph host,   *)
(* the multi-threaded analyse orchestration, palette validation and the    *)
(* daemon's request handling.                                              *)
(*                                                                         *)
(* Spec      multi-threaded analyse (main_analyse with --multithreaded):   *)
(*           main thread, analysis thread, widget workers, graph host and  *)
(*           cache host, connected by crossbeam bounded(0) channels.       *)
(* FairSpec  the same run with a smaller widget layout, under weak         *)
(*           fairness (a thread that can take a step takes one).           *)
(* CmdSpec   censor analyse | compute | dither from the command line and   *)
(*           the requests served by censor daemon, single-threaded.        *)
(***************************************************************************)
EXTENDS Integers, Sequences, FiniteSets, TLC

\* ------------------------------------------------------------------ bounds
\* Widgets (one worker thread each) of the multi-threaded run.
NumWorkers == 2
\* Operations (draw calls and cache accesses) the widgets start in one run.
MaxOps == 3
\* Size of the image and of a plot, number of palette colours drawn with,
\* number of different matrices a producer may return.
NumPixels == 2
NumColours == 2
NumData == 2
\* Requests the daemon serves, and cache accesses the process makes in
\* single-threaded analyses.
MaxRequests == 2
MaxCalls == 2
\* Colours of a palette handed to the Palette functions, the extent of the
\* colour grid along J, the largest max given to useful_mixes, and the units
\* of the fixed-point distances per half grid step.
MaxPalette == 4
MaxCoord == 1
MaxMixes == 3
Resolution == 100
\* The largest n given to bayer and the largest width and height given to
\* bluenoise.
MaxBayer == 2
MaxW == 3
MaxH == 2
MaxJ == 4
MaxGreys == 3
\* The spectrum ratios examined are the multiples of 1 / RatioSteps in 0..1.
RatioSteps == 4
\* The longest colour string handed to parse_hex, in characters.
MaxHexChars == 7

\* ------------------------------------------------------- program constants
VERSION == 2
ChanCap == 0
MinColours == 2
MaxColours == 256
F32_MAX == 1000000000
\* compute_spectrum: let n = 800
SpectrumSamples == 800

Workers == 1..NumWorkers
Pixels == 1..NumPixels
Colours == 1..NumColours
Temps == {5000, 5500}
Keys == {"RectJCh", "Spectrum"}
Ratios == {8}
WidgetKeys == {"RectJCh"}
\* The palette colour the background is filled with.
BgColour == NumColours

None == <<>>
Some(x) == <<x>>
IsSome(o) == o # None
Unwrap(o) == o[1]

\* A PlotData matrix (one row of NumPixels samples); a sample is None or the
\* colour that palette.nearest maps it to.
PlotDataOf(d) == [p \in Pixels |-> IF p = ((d - 1) % NumPixels) + 1 THEN Some((((d - 1) \div NumPixels) % NumColours) + 1) ELSE None]
PlotDatas == {PlotDataOf(d) : d \in 1..NumData}

\* --------------------------------------------------------------- BigCacher
BigCacher_new == [version |-> VERSION, plots |-> <<>>, spectra |-> <<>>, cam16_boundaries |-> <<>>]

MapGet(m, k) == IF k \in DOMAIN m THEN Some(m[k]) ELSE None
MapInsert(m, k, v) == [x \in (DOMAIN m) \cup {k} |-> IF x = k THEN v ELSE m[x]]

get_plot(c, t, key) == MapGet(c.plots, <<t, key>>)
set_plot_dropped(c, t, key, p) == c
set_plot(c, t, key, p) == [c EXCEPT !.plots = MapInsert(c.plots, <<t, key>>, p)]
get_spectrum(c, t, ratio) == MapGet(c.spectra, <<t, ratio>>)
set_spectrum(c, t, ratio, s) == [c EXCEPT !.spectra = MapInsert(c.spectra, <<t, ratio>>, s)]
get_cam16_boundary(c, t) == MapGet(c.cam16_boundaries, <<t>>)
set_cam16_boundary(c, t, b) == [c EXCEPT !.cam16_boundaries = MapInsert(c.cam16_boundaries, <<t>>, b)]

compute_cam16_boundary(t) == <<"boundary", t>>
compute_spectrum(t, ratio) == <<"spectrum", t, ratio>>

\* The cache file on disk: unreadable, undecodable, or an encoded BigCacher.
StoredCachers == {
    BigCacher_new,
    [BigCacher_new EXCEPT !.plots = MapInsert(<<>>, <<5500, "RectJCh">>, PlotDataOf(1))],
    [BigCacher_new EXCEPT !.cam16_boundaries = MapInsert(<<>>, <<5500>>, compute_cam16_boundary(5500)),
                          !.spectra = MapInsert(<<>>, <<5000, 8>>, compute_spectrum(5000, 8))],
    [BigCacher_new EXCEPT !.version = 1,
                          !.plots = MapInsert(<<>>, <<5500, "Spectrum">>, PlotDataOf(2))] }
CacheFiles == {[kind |-> "unreadable"], [kind |-> "undecodable"]} \cup {[kind |-> "ok", cacher |-> c] : c \in StoredCachers}

\* The files the multi-threaded run is started with.
AnalyseCacheFiles == {[kind |-> "ok", cacher |-> [BigCacher_new EXCEPT !.cam16_boundaries = MapInsert(<<>>, <<5500>>, compute_cam16_boundary(5500))]]}

BigCacher_load_anyVersion(file) == IF file.kind # "ok" THEN [ok |-> FALSE] ELSE [ok |-> TRUE, v |-> file.cacher]
BigCacher_load(file) == IF file.kind # "ok" THEN [ok |-> FALSE] ELSE IF file.cacher.version = VERSION THEN [ok |-> TRUE, v |-> file.cacher] ELSE [ok |-> TRUE, v |-> BigCacher_new]
BigCacher_init(file) == LET r == BigCacher_load(file) IN IF r.ok THEN r.v ELSE BigCacher_new

VARIABLES cacheFile, cacher, T, mainPc, anPc, registered, cpReq, cpResp,
          graphConns, cacheConns, graphHostPc, pc, cur, opsDone,
          graphChan, reqChan, respChan, emitted, image, applied, imageFile, layout,
          front, cmd, cmdPc, loaded, palette, stream, outputs, exitCode, served,
          nCalls, runs, lastCall, result, input, reqLog,
          fnCall, local, ret

\* What one command (one CLI invocation, one daemon request) works on.
cmdVars == <<front, cmd, cmdPc, loaded, palette, stream, outputs, exitCode, served,
             nCalls, runs, lastCall, result, input, reqLog>>
\* The threads and channels of the multi-threaded analyse.
mtVars == <<mainPc, anPc, registered, cpReq, cpResp, graphConns, cacheConns, graphHostPc,
            pc, cur, opsDone, graphChan, reqChan, respChan, emitted, applied, layout>>

\* One call of a library function: the function and its arguments, its
\* local variables while it runs, and what it returned.
fnVars == <<fnCall, local, ret>>

vars == <<cacheFile, cacher, T, image, imageFile, mtVars, cmdVars, fnVars>>

\* ------------------------------------------------------------ channels
\* A crossbeam bounded(ChanCap) channel is a queue; a blocked sender's
\* message is the one entry beyond the capacity, so a send has completed
\* once the queue holds at most ChanCap entries.
SendDoneBuffered(q) == Len(q) <= ChanCap + 1
SendDone(q) == Len(q) <= ChanCap
\* Receiver::recv on a channel that holds a message: the message and the
\* queue that is left.
ChanRecvPeek(q) == [msg |-> Head(q), rest |-> q]
ChanRecv(q) == [msg |-> Head(q), rest |-> Tail(q)]
Finished == {"done", "panicked"}

CacheKinds == {"plot", "boundary", "spectrum"}
NoOp == [kind |-> "none", key |-> "", ratio |-> -1, f |-> None, resp |-> "none", got |-> None,
         ret |-> None, nState |-> 0, nProd |-> 0, nWrite |-> 0, wrote |-> None]

StateRequest(op, t) == [type |-> CASE op.kind = "plot" -> "PlotState" [] op.kind = "boundary" -> "CAM16BoundaryState" [] OTHER -> "SpectrumState",
                        T |-> t, key |-> op.key, ratio |-> op.ratio, data |-> None]
WriteRequest(op, t, data) == [type |-> CASE op.kind = "plot" -> "PlotWrite" [] op.kind = "boundary" -> "CAM16BoundaryWrite" [] OTHER -> "SpectrumWrite",
                              T |-> t, key |-> op.key, ratio |-> op.ratio, data |-> Some(data)]
ExpectedResponse(op) == CASE op.kind = "plot" -> "Plot" [] op.kind = "boundary" -> "CAM16Boundary" [] OTHER -> "Spectrum"

\* CacheHoster::process, the match on the received request: the response it
\* sends (None: no response) and the cacher after it.
CacheAnswer_plot(c, req) == IF req.type \in {"PlotState", "CAM16BoundaryState", "SpectrumState"}
                            THEN Some([type |-> "Plot", data |-> get_plot(c, req.T, req.key)])
                            ELSE None
CacheAnswer(c, req) == CASE req.type = "PlotState" -> Some([type |-> "Plot", data |-> get_plot(c, req.T, req.key)])
                         [] req.type = "CAM16BoundaryState" -> Some([type |-> "CAM16Boundary", data |-> get_cam16_boundary(c, req.T)])
                         [] req.type = "SpectrumState" -> Some([type |-> "Spectrum", data |-> get_spectrum(c, req.T, req.ratio)])
                         [] OTHER -> None
CacheApply(c, req) == CASE req.type = "PlotWrite" -> set_plot(c, req.T, req.key, Unwrap(req.data))
                        [] req.type = "CAM16BoundaryWrite" -> set_cam16_boundary(c, req.T, Unwrap(req.data))
                        [] req.type = "SpectrumWrite" -> set_spectrum(c, req.T, req.ratio, Unwrap(req.data))
                        [] OTHER -> c

\* ---------------------------------------------------------- ImageGraph
put_pixel(img, x, c) == IF x \in Pixels THEN [img EXCEPT ![x] = c] ELSE img
RECURSIVE plot_data_from(_, _, _)
plot_data_from(img, data, i) == IF i > NumPixels THEN img
                                ELSE plot_data_from(IF IsSome(data[i]) THEN put_pixel(img, i, Unwrap(data[i])) ELSE img, data, i + 1)
plot_data(img, data) == plot_data_from(img, data, 1)
block(img, c) == [x \in Pixels |-> c]
\* GraphHoster::process, the match on the received request.
GraphApply(img, m) == IF m.type = "Pixel" THEN put_pixel(img, m.x, m.c) ELSE plot_data(img, m.data)

\* Vec::remove(i)
RemoveAtKeep(s, i) == s
RemoveAt(s, i) == SubSeq(s, 1, i - 1) \o SubSeq(s, i + 1, Len(s))

\* ------------------------------------------------------------------ Init
\* The record of the last SinglethreadedCacheProvider call: what was asked,
\* what the cacher held for the key before the call, how often the producer
\* ran during the call, and what the call returned.
NoCall == [kind |-> "none", key |-> "", ratio |-> -1, T |-> 0, f |-> None, before |-> None, ran |-> 0, ret |-> None]

\* What one request has done to the shared cacher so far: how often it
\* called cacher.save(), and whether it changed the cacher.
NoLog == [saves |-> 0, writes |-> FALSE]
\* daemon_analyse / main_analyse: cacher.save() is called (its result is
\* only logged).
LogSaveSkipped(log) == log
LogSave(log) == [log EXCEPT !.saves = @ + 1]
\* A get_* call of the provider changed the cacher (a set_* ran).
LogWrite(log, before, after) == [log EXCEPT !.writes = @ \/ (before # after)]

NoFn == [fn |-> "none"]

\* The cache accesses a widget can start: plot / plot_polar with a key and a
\* producer closure (given by the matrix it returns), get_cam16_boundary,
\* get_spectrum(ratio).
CacheOpsOn(keys, t) == {[NoOp EXCEPT !.kind = "plot", !.key = k, !.f = Some(d)] : k \in keys, d \in PlotDatas}
                       \cup {[NoOp EXCEPT !.kind = "boundary", !.f = Some(compute_cam16_boundary(t))]}
                       \cup {[NoOp EXCEPT !.kind = "spectrum", !.ratio = r, !.f = Some(compute_spectrum(t, r))] : r \in Ratios}
CacheOps(t) == CacheOpsOn(WidgetKeys, t)

\* The cache accesses each widget of the layout may make: every widget
\* plots; the odd ones read the CAM16 boundary, the even ones a spectrum.
WidgetOps(w) == {op \in CacheOps(5500) : op.kind = "plot" \/ op.kind = (IF w % 2 = 1 THEN "boundary" ELSE "spectrum")}
FullLayout == [ops |-> [w \in Workers |-> WidgetOps(w)]]
SmallLayout == [ops |-> [w \in Workers |-> {op \in WidgetOps(w) : op.kind = "plot" => op.f = Some(PlotDataOf(1))}]]

\* The threads and channels before main_analyse starts them.
InitThreads ==
    /\ mainPc = "start"
    /\ anPc = "idle"
    /\ registered = 0
    /\ cpReq = <<>>
    /\ cpResp = <<>>
    /\ graphConns = <<>>
    /\ cacheConns = <<>>
    /\ graphHostPc = "none"
    /\ pc = [w \in Workers |-> "idle"]
    /\ cur = [w \in Workers |-> NoOp]
    /\ opsDone = [w \in Workers |-> 0]
    /\ graphChan = [w \in Workers |-> <<>>]
    /\ reqChan = [w \in Workers |-> <<>>]
    /\ respChan = [w \in Workers |-> <<>>]
    /\ emitted = [w \in Workers |-> 0]
    /\ applied = [w \in Workers |-> <<>>]

\* What the process starts with: no cacher loaded yet, no image drawn, no
\* output file written.
InitProcess ==
    /\ cacher = BigCacher_new
    /\ T = 5500
    /\ image = [x \in Pixels |-> 0]
    /\ imageFile = None
    /\ loaded = None
    /\ palette = None
    /\ stream = <<>>
    /\ outputs = {}
    /\ exitCode = None
    /\ served = 0
    /\ nCalls = 0
    /\ runs = <<>>
    /\ lastCall = NoCall
    /\ result = "none"
    /\ input = None
    /\ reqLog = NoLog

\* No library function is being examined.
InitNoCall == fnCall = NoFn /\ local = None /\ ret = None

\* censor analyse --multithreaded, past the palette's validation.
InitRun ==
    /\ InitThreads /\ InitProcess /\ InitNoCall
    /\ cacheFile \in AnalyseCacheFiles
    /\ front = "cli" /\ cmd = "analyse" /\ cmdPc = "multithreaded"

Init == InitRun /\ layout = FullLayout
FairInit == InitRun /\ layout = SmallLayout

\* ----------------------------------------------------------- main thread
\* main_analyse: BigCacher::init, CacheHoster::new, spawn of the analysis thread.
MainInit ==
    /\ mainPc = "start"
    /\ cacher' = BigCacher_init(cacheFile)
    /\ mainPc' = "register"
    /\ anPc' = "setup"
    /\ UNCHANGED <<cacheFile, T, registered, cpReq, cpResp, graphConns, cacheConns, graphHostPc,
                   pc, cur, opsDone, graphChan, reqChan, respChan, emitted, image, applied, imageFile, layout, cmdVars, fnVars>>

\* main_analyse, the loop: Ok(()) => register and send the provider.
MainRegister ==
    /\ mainPc = "register"
    /\ SendDone(cpResp)
    /\ cpReq # <<>>
    /\ cpReq' = Tail(cpReq)
    /\ cacheConns' = Append(cacheConns, Len(cacheConns) + 1)
    /\ cpResp' = Append(cpResp, Len(cacheConns) + 1)
    /\ UNCHANGED <<cacheFile, cacher, T, mainPc, anPc, registered, graphConns, graphHostPc,
                   pc, cur, opsDone, graphChan, reqChan, respChan, emitted, image, applied, imageFile, layout, cmdVars, fnVars>>

\* main_analyse, the loop: Err(_) => break, once cp_req_send is dropped.
MainRegisterEnd ==
    /\ mainPc = "register"
    /\ SendDone(cpResp)
    /\ cpReq = <<>>
    /\ anPc \in {"scope", "done", "panicked"}
    /\ mainPc' = "process"
    /\ UNCHANGED <<cacheFile, cacher, T, anPc, registered, cpReq, cpResp, graphConns, cacheConns, graphHostPc,
                   pc, cur, opsDone, graphChan, reqChan, respChan, emitted, image, applied, imageFile, layout, cmdVars, fnVars>>

\* The cache host is blocked while a response it sent has not been taken.
CacheHostFree == \A w \in Workers : SendDone(respChan[w])

\* CacheHoster::process: a request is received from connection i.
CacheHostRecv(i) ==
    /\ mainPc = "process"
    /\ CacheHostFree
    /\ i \in 1..Len(cacheConns)
    /\ LET w == cacheConns[i]
           r == ChanRecv(reqChan[w])
           req == r.msg
           ans == CacheAnswer(cacher, req)
       IN /\ reqChan[w] # <<>>
          /\ reqChan' = [reqChan EXCEPT ![w] = r.rest]
          /\ cacher' = CacheApply(cacher, req)
          /\ respChan' = IF IsSome(ans) THEN [respChan EXCEPT ![w] = Append(@, Unwrap(ans))] ELSE respChan
    /\ UNCHANGED <<cacheFile, T, mainPc, anPc, registered, cpReq, cpResp, graphConns, cacheConns, graphHostPc,
                   pc, cur, opsDone, graphChan, emitted, image, applied, imageFile, layout, cmdVars, fnVars>>

\* CacheHoster::process: Err(_) => self.connections.remove(i).
CacheHostDisconnect(i) ==
    /\ mainPc = "process"
    /\ CacheHostFree
    /\ i \in 1..Len(cacheConns)
    /\ reqChan[cacheConns[i]] = <<>>
    /\ pc[cacheConns[i]] \in Finished
    /\ cacheConns' = RemoveAt(cacheConns, i)
    /\ UNCHANGED <<cacheFile, cacher, T, mainPc, anPc, registered, cpReq, cpResp, graphConns, graphHostPc,
                   pc, cur, opsDone, graphChan, reqChan, respChan, emitted, image, applied, imageFile, layout, cmdVars, fnVars>>

\* CacheHoster::process: the while condition fails.
CacheHostExit ==
    /\ mainPc = "process"
    /\ CacheHostFree
    /\ Len(cacheConns) = 0
    /\ mainPc' = "join"
    /\ UNCHANGED <<cacheFile, cacher, T, anPc, registered, cpReq, cpResp, graphConns, cacheConns, graphHostPc,
                   pc, cur, opsDone, graphChan, reqChan, respChan, emitted, image, applied, imageFile, layout, cmdVars, fnVars>>

\* main_analyse: handle.join().unwrap()
MainJoinNoWait ==
    /\ mainPc = "join"
    /\ mainPc' = IF anPc = "panicked" THEN "panicked" ELSE "savecache"
    /\ UNCHANGED <<cacheFile, cacher, T, anPc, registered, cpReq, cpResp, graphConns, cacheConns, graphHostPc,
                   pc, cur, opsDone, graphChan, reqChan, respChan, emitted, image, applied, imageFile, layout, cmdVars, fnVars>>
MainJoin ==
    /\ mainPc = "join"
    /\ anPc \in {"done", "panicked"}
    /\ mainPc' = IF anPc = "done" THEN "savecache" ELSE "panicked"
    /\ UNCHANGED <<cacheFile, cacher, T, anPc, registered, cpReq, cpResp, graphConns, cacheConns, graphHostPc,
                   pc, cur, opsDone, graphChan, reqChan, respChan, emitted, image, applied, imageFile, layout, cmdVars, fnVars>>

\* main_analyse: cacher.save(), whose failure is only logged.
MainSaveCache ==
    /\ mainPc = "savecache"
    /\ \E ok \in BOOLEAN : cacheFile' = IF ok THEN [kind |-> "ok", cacher |-> cacher] ELSE cacheFile
    /\ mainPc' = "exit"
    /\ UNCHANGED <<cacher, T, anPc, registered, cpReq, cpResp, graphConns, cacheConns, graphHostPc,
                   pc, cur, opsDone, graphChan, reqChan, respChan, emitted, image, applied, imageFile, layout, cmdVars, fnVars>>

\* ------------------------------------------------------- analysis thread
\* analyse_multithreaded: ImageGraph::new and the background, frame and
\* title drawn directly on the image before analyse_main is called.
AnSetup ==
    /\ anPc = "setup"
    /\ image' = block(image, BgColour)
    /\ anPc' = "init"
    /\ UNCHANGED <<cacheFile, cacher, T, mainPc, registered, cpReq, cpResp, graphConns, cacheConns, graphHostPc,
                   pc, cur, opsDone, graphChan, reqChan, respChan, emitted, applied, imageFile, layout, cmdVars, fnVars>>

\* init_state: GraphHoster::new(graph, ...) takes the image by &mut.
AnInitState ==
    /\ anPc = "init"
    /\ graphHostPc' = "created"
    /\ anPc' = "reg"
    /\ UNCHANGED <<cacheFile, cacher, T, mainPc, registered, cpReq, cpResp, graphConns, cacheConns,
                   pc, cur, opsDone, graphChan, reqChan, respChan, emitted, image, applied, imageFile, layout, cmdVars, fnVars>>

\* run_multithreaded: state.1.register() and state.2.send(()).
AnRegister ==
    /\ anPc = "reg"
    /\ registered < NumWorkers
    /\ graphConns' = Append(graphConns, registered + 1)
    /\ cpReq' = Append(cpReq, "unit")
    /\ anPc' = "await"
    /\ UNCHANGED <<cacheFile, cacher, T, mainPc, registered, cpResp, cacheConns, graphHostPc,
                   pc, cur, opsDone, graphChan, reqChan, respChan, emitted, image, applied, imageFile, layout, cmdVars, fnVars>>

\* run_multithreaded: state.3.recv() and the push of the widget closure.
AnRecvProvider ==
    /\ anPc = "await"
    /\ SendDone(cpReq)
    /\ cpResp # <<>>
    /\ cpResp' = Tail(cpResp)
    /\ registered' = registered + 1
    /\ anPc' = "reg"
    /\ UNCHANGED <<cacheFile, cacher, T, mainPc, cpReq, graphConns, cacheConns, graphHostPc,
                   pc, cur, opsDone, graphChan, reqChan, respChan, emitted, image, applied, imageFile, layout, cmdVars, fnVars>>

\* run_all: drop(state.2), then the scope spawns every closure and the host.
AnRunAll ==
    /\ anPc = "reg"
    /\ registered = NumWorkers
    /\ pc' = [w \in Workers |-> "ready"]
    /\ graphHostPc' = "process"
    /\ anPc' = "scope"
    /\ UNCHANGED <<cacheFile, cacher, T, mainPc, registered, cpReq, cpResp, graphConns, cacheConns,
                   cur, opsDone, graphChan, reqChan, respChan, emitted, image, applied, imageFile, layout, cmdVars, fnVars>>

\* thread::scope returns when every thread spawned in it has ended: the
\* widget closures and the graph host.
ScopeJoinedWorkersOnly == \A w \in Workers : pc[w] \in Finished
ScopeJoined == graphHostPc = "exited" /\ \A w \in Workers : pc[w] \in Finished

\* run_all: thread::scope(..).unwrap() returns when every spawned thread has
\* ended and panics if one of them panicked; then graph.save(fname).unwrap().
AnSaveIgnoringPanics ==
    /\ anPc = "scope"
    /\ ScopeJoined
    /\ \E ok \in BOOLEAN :
         /\ imageFile' = IF ok THEN Some(image) ELSE imageFile
         /\ anPc' = IF ok THEN "done" ELSE "panicked"
    /\ UNCHANGED <<cacheFile, cacher, T, mainPc, registered, cpReq, cpResp, graphConns, cacheConns, graphHostPc,
                   pc, cur, opsDone, graphChan, reqChan, respChan, emitted, image, applied, layout, cmdVars, fnVars>>
AnSave ==
    /\ anPc = "scope"
    /\ ScopeJoined
    /\ IF \E w \in Workers : pc[w] = "panicked"
       THEN anPc' = "panicked" /\ imageFile' = imageFile
       ELSE \E ok \in BOOLEAN :
              /\ imageFile' = IF ok THEN Some(image) ELSE imageFile
              /\ anPc' = IF ok THEN "done" ELSE "panicked"
    /\ UNCHANGED <<cacheFile, cacher, T, mainPc, registered, cpReq, cpResp, graphConns, cacheConns, graphHostPc,
                   pc, cur, opsDone, graphChan, reqChan, respChan, emitted, image, applied, layout, cmdVars, fnVars>>

\* ------------------------------------------------------------ graph host
\* GraphHoster::process: a request is received from connection i and applied.
GraphHostRecv(i) ==
    /\ graphHostPc = "process"
    /\ i \in 1..Len(graphConns)
    /\ LET w == graphConns[i]
           r == ChanRecv(graphChan[w])
       IN /\ graphChan[w] # <<>>
          /\ image' = GraphApply(image, r.msg)
          /\ applied' = [applied EXCEPT ![w] = Append(@, r.msg.seq)]
          /\ graphChan' = [graphChan EXCEPT ![w] = r.rest]
    /\ UNCHANGED <<cacheFile, cacher, T, mainPc, anPc, registered, cpReq, cpResp, graphConns, cacheConns, graphHostPc,
                   pc, cur, opsDone, reqChan, respChan, emitted, imageFile, layout, cmdVars, fnVars>>

\* GraphHoster::process: Err(_) => self.connections.remove(i).
GraphHostDisconnect(i) ==
    /\ graphHostPc = "process"
    /\ i \in 1..Len(graphConns)
    /\ graphChan[graphConns[i]] = <<>>
    /\ pc[graphConns[i]] \in Finished
    /\ graphConns' = RemoveAt(graphConns, i)
    /\ UNCHANGED <<cacheFile, cacher, T, mainPc, anPc, registered, cpReq, cpResp, cacheConns, graphHostPc,
                   pc, cur, opsDone, graphChan, reqChan, respChan, emitted, image, applied, imageFile, layout, cmdVars, fnVars>>

\* GraphHoster::process: the while condition fails.
GraphHostExit ==
    /\ graphHostPc = "process"
    /\ Len(graphConns) = 0
    /\ graphHostPc' = "exited"
    /\ UNCHANGED <<cacheFile, cacher, T, mainPc, anPc, registered, cpReq, cpResp, graphConns, cacheConns,
                   pc, cur, opsDone, graphChan, reqChan, respChan, emitted, image, applied, imageFile, layout, cmdVars, fnVars>>

\* --------------------------------------------------------- widget workers
\* The number of operations (draw calls and cache accesses) the widgets have
\* started so far.
RECURSIVE SumTo(_, _)
SumTo(f, n) == IF n = 0 THEN 0 ELSE f[n] + SumTo(f, n - 1)
OpsStarted == SumTo(opsDone, NumWorkers)

\* A worker is past its previous send once the host has taken the message.
WorkerFree(w) == SendDone(graphChan[w]) /\ SendDone(reqChan[w])

\* MultithreadedGraphProvider::put_pixel (and the other plain primitives):
\* one message on the worker's graph channel.
\* Each widget draws its labels and frames inside its own area, in its
\* own colour.
DrawPixel(w) == ((w - 1) % NumPixels) + 1
DrawColour(w) == ((w - 1) % NumColours) + 1

WorkerDraw(w) ==
    /\ pc[w] = "ready"
    /\ WorkerFree(w)
    /\ OpsStarted < MaxOps
    /\ LET m == [type |-> "Pixel", seq |-> emitted[w] + 1, x |-> DrawPixel(w), c |-> DrawColour(w), data |-> None]
       IN graphChan' = [graphChan EXCEPT ![w] = Append(@, m)]
    /\ emitted' = [emitted EXCEPT ![w] = @ + 1]
    /\ cur' = [cur EXCEPT ![w] = NoOp]
    /\ opsDone' = [opsDone EXCEPT ![w] = @ + 1]
    /\ UNCHANGED <<cacheFile, cacher, T, mainPc, anPc, registered, cpReq, cpResp, graphConns, cacheConns, graphHostPc,
                   pc, reqChan, respChan, image, applied, imageFile, layout, cmdVars, fnVars>>

\* MultithreadedCacheProvider::get_*: self.sender.send(<state request>).
WorkerRequest(w) ==
    /\ pc[w] = "ready"
    /\ WorkerFree(w)
    /\ OpsStarted < MaxOps
    /\ \E op \in layout.ops[w] :
         /\ cur' = [cur EXCEPT ![w] = [op EXCEPT !.nState = 1]]
         /\ reqChan' = [reqChan EXCEPT ![w] = Append(@, StateRequest(op, T))]
    /\ pc' = [pc EXCEPT ![w] = "recv"]
    /\ opsDone' = [opsDone EXCEPT ![w] = @ + 1]
    /\ UNCHANGED <<cacheFile, cacher, T, mainPc, anPc, registered, cpReq, cpResp, graphConns, cacheConns, graphHostPc,
                   graphChan, respChan, emitted, image, applied, imageFile, layout, cmdVars, fnVars>>

\* MultithreadedCacheProvider::get_*: the match on self.receiver.recv().
\* Some(data): return it.  None: run the producer, send the write request,
\* return the data.  Another variant: panic.  The result names the call
\* record after the match, the write request sent (None: no request) and
\* whether the worker panicked.
OnResponseRewrite(op, resp, t) ==
    IF resp.type # ExpectedResponse(op) THEN [op |-> op, write |-> None, panic |-> TRUE]
    ELSE IF IsSome(resp.data)
    THEN [op |-> [op EXCEPT !.resp = "hit", !.got = resp.data, !.ret = resp.data, !.nWrite = @ + 1, !.wrote = resp.data],
          write |-> Some(WriteRequest(op, t, Unwrap(resp.data))), panic |-> FALSE]
    ELSE [op |-> [op EXCEPT !.resp = "miss", !.ret = op.f, !.nProd = @ + 1, !.nWrite = @ + 1, !.wrote = op.f],
          write |-> Some(WriteRequest(op, t, Unwrap(op.f))), panic |-> FALSE]
OnResponseRecompute(op, resp, t) ==
    IF resp.type # ExpectedResponse(op) THEN [op |-> op, write |-> None, panic |-> TRUE]
    ELSE IF IsSome(resp.data)
    THEN [op |-> [op EXCEPT !.resp = "hit", !.got = resp.data, !.ret = op.f, !.nProd = @ + 1],
          write |-> None, panic |-> FALSE]
    ELSE [op |-> [op EXCEPT !.resp = "miss", !.ret = op.f, !.nProd = @ + 1, !.nWrite = @ + 1, !.wrote = op.f],
          write |-> Some(WriteRequest(op, t, Unwrap(op.f))), panic |-> FALSE]
OnResponse(op, resp, t) ==
    IF resp.type # ExpectedResponse(op) THEN [op |-> op, write |-> None, panic |-> TRUE]
    ELSE IF IsSome(resp.data)
    THEN [op |-> [op EXCEPT !.resp = "hit", !.got = resp.data, !.ret = resp.data],
          write |-> None, panic |-> FALSE]
    ELSE [op |-> [op EXCEPT !.resp = "miss", !.ret = op.f, !.nProd = @ + 1, !.nWrite = @ + 1, !.wrote = op.f],
          write |-> Some(WriteRequest(op, t, Unwrap(op.f))), panic |-> FALSE]

WorkerRecv(w) ==
    /\ pc[w] = "recv"
    /\ SendDone(reqChan[w])
    /\ respChan[w] # <<>>
    /\ LET r == ChanRecv(respChan[w])
           o == OnResponse(cur[w], r.msg, T)
       IN /\ respChan' = [respChan EXCEPT ![w] = r.rest]
          /\ cur' = [cur EXCEPT ![w] = o.op]
          /\ reqChan' = IF IsSome(o.write) THEN [reqChan EXCEPT ![w] = Append(@, Unwrap(o.write))] ELSE reqChan
          /\ pc' = [pc EXCEPT ![w] = IF o.panic THEN "panicked" ELSE IF o.op.kind = "plot" THEN "blit" ELSE "ready"]
    /\ UNCHANGED <<cacheFile, cacher, T, mainPc, anPc, registered, cpReq, cpResp, graphConns, cacheConns, graphHostPc,
                   opsDone, graphChan, emitted, image, applied, imageFile, layout, cmdVars, fnVars>>

\* MultithreadedGraphProvider::plot / plot_polar, after cacher.get_plot
\* returned: self.sender.send(GraphRequest::PlotData {..}).
WorkerBlit(w) ==
    /\ pc[w] = "blit"
    /\ WorkerFree(w)
    /\ LET m == [type |-> "PlotData", seq |-> emitted[w] + 1, x |-> 0, c |-> 0, data |-> Unwrap(cur[w].ret)]
       IN graphChan' = [graphChan EXCEPT ![w] = Append(@, m)]
    /\ emitted' = [emitted EXCEPT ![w] = @ + 1]
    /\ cur' = [cur EXCEPT ![w] = NoOp]
    /\ pc' = [pc EXCEPT ![w] = "ready"]
    /\ UNCHANGED <<cacheFile, cacher, T, mainPc, anPc, registered, cpReq, cpResp, graphConns, cacheConns, graphHostPc,
                   opsDone, reqChan, respChan, image, applied, imageFile, layout, cmdVars, fnVars>>

\* The widget closure returns: its graph provider and cache provider are
\* dropped, which disconnects the worker's channels.
WorkerFinish(w) ==
    /\ pc[w] = "ready"
    /\ WorkerFree(w)
    /\ pc' = [pc EXCEPT ![w] = "done"]
    /\ cur' = [cur EXCEPT ![w] = NoOp]
    /\ UNCHANGED <<cacheFile, cacher, T, mainPc, anPc, registered, cpReq, cpResp, graphConns, cacheConns, graphHostPc,
                   opsDone, graphChan, reqChan, respChan, emitted, image, applied, imageFile, layout, cmdVars, fnVars>>

Next ==
    \/ MainInit \/ MainRegister \/ MainRegisterEnd
    \/ \E i \in 1..NumWorkers : CacheHostRecv(i)
    \/ \E i \in 1..NumWorkers : CacheHostDisconnect(i)
    \/ CacheHostExit \/ MainJoin \/ MainSaveCache
    \/ AnSetup \/ AnInitState \/ AnRegister \/ AnRecvProvider \/ AnRunAll \/ AnSave
    \/ \E i \in 1..NumWorkers : GraphHostRecv(i)
    \/ \E i \in 1..NumWorkers : GraphHostDisconnect(i)
    \/ GraphHostExit
    \/ \E w \in Workers : WorkerDraw(w) \/ WorkerRequest(w) \/ WorkerRecv(w) \/ WorkerBlit(w) \/ WorkerFinish(w)

Spec == Init /\ [][Next]_vars

\* Every thread that can take a step eventually takes one.
FairSpec == FairInit /\ [][Next]_vars /\ WF_vars(Next)

\* ------------------------------------------------- a widget closure panics
\* The first widget closure to panic (the thread unwinds): its graph provider and its
\* cache provider are dropped with it, which disconnects its channels; a
\* message it was still blocked sending on a bounded(0) channel is never
\* delivered, a response the cache host is sending to it stays undelivered.
WorkerAbort(w) ==
    /\ pc[w] \in {"ready", "recv", "blit"}
    /\ \A v \in Workers : pc[v] # "panicked"
    /\ pc' = [pc EXCEPT ![w] = "panicked"]
    /\ cur' = [cur EXCEPT ![w] = NoOp]
    /\ graphChan' = [graphChan EXCEPT ![w] = SubSeq(@, 1, ChanCap)]
    /\ reqChan' = [reqChan EXCEPT ![w] = SubSeq(@, 1, ChanCap)]
    /\ UNCHANGED <<cacheFile, cacher, T, mainPc, anPc, registered, cpReq, cpResp, graphConns, cacheConns, graphHostPc,
                   opsDone, respChan, emitted, image, applied, imageFile, layout, cmdVars, fnVars>>

\* CacheHoster::process: self.connections[i].1.send(..).unwrap() on a
\* channel whose receiver was dropped returns Err, so the unwrap panics in
\* the main thread; the process ends and takes every other thread with it.
Killed(p, ended) == IF p \in ended THEN p ELSE "killed"
CacheHostSendFail ==
    /\ mainPc = "process"
    /\ \E w \in Workers : respChan[w] # <<>> /\ pc[w] = "panicked"
    /\ mainPc' = "panicked"
    /\ anPc' = Killed(anPc, {"done", "panicked"})
    /\ graphHostPc' = Killed(graphHostPc, {"exited"})
    /\ pc' = [w \in Workers |-> Killed(pc[w], Finished)]
    /\ UNCHANGED <<cacheFile, cacher, T, registered, cpReq, cpResp, graphConns, cacheConns,
                   cur, opsDone, graphChan, reqChan, respChan, emitted, image, applied, imageFile, layout, cmdVars, fnVars>>

FaultNext ==
    \/ Next
    \/ \E w \in Workers : WorkerAbort(w)
    \/ CacheHostSendFail

\* Every thread that can take a step eventually takes one; no panic is
\* bound to happen.
FaultSpec == FairInit /\ [][FaultNext]_vars /\ WF_vars(Next \/ CacheHostSendFail)

\* ======================================================================
\* Commands: censor analyse | compute | dither from the command line, and
\* the requests of the daemon (single-threaded)
\* ======================================================================
\* A loaded palette is given by its length n and the number m of distinct
\* colours in it: palettes without a repeated colour at the lengths around
\* the two limits, and one with a repeated colour.
PaletteLens == {0, 1, MinColours, MaxColours, MaxColours + 1}
LoadedPalettes == {[n |-> n, m |-> n] : n \in PaletteLens} \cup {[n |-> MinColours, m |-> MinColours - 1]}

\* loader::check_palette
check_palette(lp) == IF lp.n < MinColours THEN "TooFewColours"
                     ELSE IF lp.n > MaxColours THEN "TooManyColours"
                     ELSE IF lp.m < lp.n THEN "Duplicates"
                     ELSE "Ok"

\* Palette::new: bl, bg, fg and tl are indices found by minimise (0 for an
\* empty palette), and rgb[bl] is read unless grey_ui is set.
Palette_new(lp, grey_ui) == IF lp.n = 0 /\ ~grey_ui THEN [panic |-> TRUE] ELSE [panic |-> FALSE, v |-> [n |-> lp.n]]

\* Palette::nearest: the palette's colours are 1..n; a sample is nearest to
\* the colour of its own number, or to the last one.
nearest(pal, x) == IF x <= pal.n THEN x ELSE pal.n

\* daemon::abort and the daemon's other writes to the connection.
abort(s, reason) == Append(s, [status |-> "ERR", text |-> reason])
write_ok(s) == Append(s, [status |-> "OK", text |-> ""])
write_metric(s, metric) == Append(s, [status |-> "line", text |-> metric])

\* SinglethreadedCacheProvider::get_plot / get_cam16_boundary / get_spectrum
\* at temperature t: the cacher after the call, the value returned and how
\* often the producer ran.
SinglethreadedGet(c, t, op) ==
    LET stored == CASE op.kind = "plot" -> get_plot(c, t, op.key)
                    [] op.kind = "boundary" -> get_cam16_boundary(c, t)
                    [] OTHER -> get_spectrum(c, t, op.ratio)
    IN IF IsSome(stored)
       THEN [cacher |-> c, before |-> stored, ret |-> stored, ran |-> 0]
       ELSE [cacher |-> CASE op.kind = "plot" -> set_plot(c, t, op.key, Unwrap(op.f))
                          [] op.kind = "boundary" -> set_cam16_boundary(c, t, Unwrap(op.f))
                          [] OTHER -> set_spectrum(c, t, op.ratio, Unwrap(op.f)),
             before |-> stored, ret |-> op.f, ran |-> 1]

\* std::process::exit(1) on the command line, abort(stream, reason) and
\* return in the daemon.
Fail(reason) ==
    /\ stream' = IF front = "daemon" THEN abort(stream, reason) ELSE stream
    /\ exitCode' = IF front = "cli" THEN Some(1) ELSE exitCode
    /\ cmdPc' = IF front = "daemon" THEN "finished" ELSE "exited"
    /\ result' = "failed"

\* A panic on the main thread ends the process with status 101.
Panic ==
    /\ stream' = stream
    /\ exitCode' = Some(101)
    /\ cmdPc' = "panicked"
    /\ result' = "panicked"

\* The command function returns: main returns (status 0), or process goes
\* back to the daemon's accept loop.
Return ==
    /\ exitCode' = IF front = "cli" THEN Some(0) ELSE exitCode
    /\ cmdPc' = IF front = "daemon" THEN "finished" ELSE "exited"
    /\ result' = "ok"

\* main: the subcommand is matched; main_analyse starts with BigCacher::init.
CliStart ==
    /\ front = "cli" /\ cmdPc = "start"
    /\ \E c \in {"analyse", "compute", "dither", "none"} :
         /\ cmd' = c
         /\ IF c = "none"
            THEN exitCode' = Some(1) /\ cmdPc' = "exited" /\ result' = "failed" /\ cacher' = cacher
            ELSE /\ cacher' = IF c = "analyse" THEN BigCacher_init(cacheFile) ELSE cacher
                 /\ cmdPc' = "T"
                 /\ UNCHANGED <<exitCode, result>>
    /\ UNCHANGED <<cacheFile, T, image, imageFile, mtVars, fnVars, front, loaded, palette, stream, outputs, served,
                   nCalls, runs, lastCall, input, reqLog>>

\* daemon::run: bind, BigCacher::init, then the accept loop.
DaemonRun ==
    /\ front = "daemon" /\ cmdPc = "start"
    /\ \E bound \in BOOLEAN :
         IF bound
         THEN cacher' = BigCacher_init(cacheFile) /\ cmdPc' = "idle" /\ UNCHANGED <<exitCode, result>>
         ELSE cacher' = cacher /\ cmdPc' = "exited" /\ exitCode' = Some(1) /\ result' = "failed"
    /\ UNCHANGED <<cacheFile, T, image, imageFile, mtVars, fnVars, front, cmd, loaded, palette, stream, outputs, served,
                   nCalls, runs, lastCall, input, reqLog>>

\* daemon::process up to the dispatch on the subcommand.
DaemonAccept ==
    /\ front = "daemon" /\ cmdPc = "idle"
    /\ served < MaxRequests
    /\ \E line \in {"unreadable", "unsplittable", "invalid", "analyse", "compute", "dither"} :
         /\ cmd' = IF line = "unreadable" THEN cmd ELSE line
         /\ CASE line = "unreadable" -> /\ served' = served + 1
                                        /\ UNCHANGED <<stream, cmdPc, result>>
              [] line = "unsplittable" -> /\ stream' = abort(stream, "Error splitting the command")
                                          /\ cmdPc' = "finished" /\ result' = "failed" /\ served' = served
              [] line = "invalid" -> /\ stream' = abort(stream, "Invalid command")
                                     /\ cmdPc' = "finished" /\ result' = "failed" /\ served' = served
              [] OTHER -> /\ cmdPc' = "T"
                          /\ UNCHANGED <<stream, result, served>>
    /\ UNCHANGED <<cacheFile, cacher, T, image, imageFile, mtVars, fnVars, front, loaded, palette, outputs, exitCode,
                   nCalls, runs, lastCall, input, reqLog>>

\* daemon::process returns: the connection and the locals of the command
\* are dropped; run takes the next connection.
DaemonClose ==
    /\ front = "daemon" /\ cmdPc = "finished"
    /\ cmdPc' = "idle"
    /\ served' = served + 1
    /\ stream' = <<>>
    /\ loaded' = None /\ palette' = None /\ outputs' = {} /\ input' = None
    /\ lastCall' = NoCall /\ result' = "none" /\ reqLog' = NoLog
    /\ cmd' = "none" /\ T' = 5500
    /\ image' = [x \in Pixels |-> 0]
    /\ UNCHANGED <<cacheFile, cacher, imageFile, mtVars, fnVars, front, exitCode, nCalls, runs>>

\* The D preset or the temperature is parsed.
ParseT ==
    /\ cmdPc = "T"
    /\ \E t \in Temps \cup {-1} :
         IF t = -1
         THEN Fail("Invalid illuminant") /\ T' = T
         ELSE T' = t /\ cmdPc' = "load" /\ UNCHANGED <<stream, exitCode, result>>
    /\ UNCHANGED <<cacheFile, cacher, image, imageFile, mtVars, fnVars, front, cmd, loaded, palette, outputs, served,
                   nCalls, runs, lastCall, input, reqLog>>

\* palette_from_cmd
LoadPalette ==
    /\ cmdPc = "load"
    /\ \/ Fail("Error while getting palette") /\ loaded' = loaded
       \/ \E lp \in LoadedPalettes :
            /\ loaded' = Some(lp)
            /\ cmdPc' = IF cmd = "analyse" THEN "check" ELSE "build"
            /\ UNCHANGED <<stream, exitCode, result>>
    /\ UNCHANGED <<cacheFile, cacher, T, image, imageFile, mtVars, fnVars, front, cmd, palette, outputs, served,
                   nCalls, runs, lastCall, input, reqLog>>

\* main_analyse / daemon_analyse: match check_palette(&palette.colours).
CheckPalette ==
    /\ cmdPc = "check"
    /\ IF check_palette(Unwrap(loaded)) # "Ok"
       THEN Fail("Error while validating palette")
       ELSE cmdPc' = "build" /\ UNCHANGED <<stream, exitCode, result>>
    /\ UNCHANGED <<cacheFile, cacher, T, image, imageFile, mtVars, fnVars, front, cmd, loaded, palette, outputs, served,
                   nCalls, runs, lastCall, input, reqLog>>

\* Palette::new(..) in main_compute, main_dither, daemon_compute and
\* daemon_dither (grey_ui false), and at the start of
\* analyse_singlethreaded, which then draws the background.
BuildPalette ==
    /\ cmdPc = "build"
    /\ \E grey_ui \in (IF cmd = "analyse" THEN BOOLEAN ELSE {FALSE}) :
         LET r == Palette_new(Unwrap(loaded), grey_ui)
         IN IF r.panic
            THEN Panic /\ UNCHANGED <<palette, image>>
            ELSE /\ palette' = Some(r.v)
                 /\ cmdPc' = CASE cmd = "analyse" -> "widgets" [] cmd = "compute" -> "metrics" [] OTHER -> "loadimg"
                 /\ image' = IF cmd = "analyse" THEN block(image, BgColour) ELSE image
                 /\ UNCHANGED <<stream, exitCode, result>>
    /\ UNCHANGED <<cacheFile, cacher, T, imageFile, mtVars, fnVars, front, cmd, loaded, outputs, served,
                   nCalls, runs, lastCall, input, reqLog>>

\* One cache access of a widget in analyse_singlethreaded (ImageGraph::plot
\* and plot_polar blit what get_plot returns onto the image).
StCall ==
    /\ cmdPc = "widgets"
    /\ nCalls < MaxCalls
    /\ \E op \in CacheOpsOn(Keys, T) :
         LET r == SinglethreadedGet(cacher, T, op)
             k == <<op.kind, T, op.key, op.ratio>>
             old == IF k \in DOMAIN runs THEN runs[k] ELSE [n |-> 0, rets |-> {}]
         IN /\ cacher' = r.cacher
            /\ lastCall' = [kind |-> op.kind, key |-> op.key, ratio |-> op.ratio, T |-> T, f |-> op.f,
                            before |-> r.before, ran |-> r.ran, ret |-> r.ret]
            /\ runs' = MapInsert(runs, k, [n |-> old.n + r.ran, rets |-> old.rets \cup {r.ret}])
            /\ image' = IF op.kind = "plot" THEN plot_data(image, Unwrap(r.ret)) ELSE image
            /\ reqLog' = LogWrite(reqLog, cacher, r.cacher)
    /\ nCalls' = nCalls + 1
    /\ UNCHANGED <<cacheFile, T, imageFile, mtVars, fnVars, front, cmd, cmdPc, loaded, palette, stream, outputs,
                   exitCode, served, result, input>>

\* analyse_singlethreaded: graph.save(fname).unwrap(); then the caller
\* writes OK (daemon) and saves the cacher, whose failure is only logged.
AnalyseSave ==
    /\ cmdPc = "widgets"
    /\ \E saved \in BOOLEAN, cacheSaved \in BOOLEAN :
         IF ~saved
         THEN Panic /\ UNCHANGED <<imageFile, outputs, cacheFile, reqLog>>
         ELSE /\ imageFile' = Some(image)
              /\ outputs' = outputs \cup {"image"}
              /\ stream' = IF front = "daemon" THEN write_ok(stream) ELSE stream
              /\ reqLog' = LogSave(reqLog)
              /\ cacheFile' = IF cacheSaved THEN [kind |-> "ok", cacher |-> cacher] ELSE cacheFile
              /\ Return
    /\ UNCHANGED <<cacher, T, image, mtVars, fnVars, front, cmd, loaded, palette, served,
                   nCalls, runs, lastCall, input>>

\* main_compute / daemon_compute: every enabled metric is computed and
\* written, "iss" before "acyclic"; then the function returns.
WriteMetrics(s, enabled) ==
    LET s1 == IF "iss" \in enabled THEN write_metric(s, "iss") ELSE s
    IN IF "acyclic" \in enabled THEN write_metric(s1, "acyclic") ELSE s1

ComputeMetrics ==
    /\ cmdPc = "metrics"
    /\ \E enabled \in SUBSET {"iss", "acyclic"} :
         /\ outputs' = enabled
         /\ stream' = IF front = "daemon" THEN WriteMetrics(stream, enabled) ELSE stream
    /\ Return
    /\ UNCHANGED <<cacheFile, cacher, T, image, imageFile, mtVars, fnVars, front, cmd, loaded, palette, served,
                   nCalls, runs, lastCall, input, reqLog>>

\* main_dither / daemon_dither: load_image.
DitherLoadImage ==
    /\ cmdPc = "loadimg"
    /\ \/ Fail("Error loading input image") /\ input' = input
       \/ \E d \in PlotDatas :
            /\ input' = Some(d)
            /\ cmdPc' = "method"
            /\ UNCHANGED <<stream, exitCode, result>>
    /\ UNCHANGED <<cacheFile, cacher, T, image, imageFile, mtVars, fnVars, front, cmd, loaded, palette, outputs, served,
                   nCalls, runs, lastCall, reqLog>>

\* main_dither / daemon_dither: the dithering method is read; an
\* unparsable Bayer size aborts, scan! panics on a malformed WxH.
DitherMethod ==
    /\ cmdPc = "method"
    /\ \E m \in {"ok", "unparsable", "unscannable"} :
         CASE m = "unparsable" -> Fail("Could not parse Bayer matrix size")
           [] m = "unscannable" -> Panic
           [] OTHER -> cmdPc' = "dither" /\ UNCHANGED <<stream, exitCode, result>>
    /\ UNCHANGED <<cacheFile, cacher, T, image, imageFile, mtVars, fnVars, front, cmd, loaded, palette, outputs, served,
                   nCalls, runs, lastCall, input, reqLog>>

\* Ditherer::dither and the copy into the RgbImage (None stays black).
Dithered(pal, data) == [p \in Pixels |-> IF IsSome(data[p]) THEN nearest(pal, Unwrap(data[p])) ELSE 0]

\* main_dither / daemon_dither: dither, image.save, the ICC profile (every
\* path through it ends the same way), OK.
DitherSave ==
    /\ cmdPc = "dither"
    /\ \E saved \in BOOLEAN :
         IF ~saved
         THEN Fail("Error saving output image") /\ UNCHANGED <<imageFile, outputs>>
         ELSE /\ imageFile' = Some(Dithered(Unwrap(palette), Unwrap(input)))
              /\ outputs' = outputs \cup {"image"}
              /\ stream' = IF front = "daemon" THEN write_ok(stream) ELSE stream
              /\ Return
    /\ UNCHANGED <<cacheFile, cacher, T, image, mtVars, fnVars, front, cmd, loaded, palette, served,
                   nCalls, runs, lastCall, input, reqLog>>

CmdInit ==
    /\ InitThreads /\ InitProcess /\ InitNoCall
    /\ layout = FullLayout
    /\ cacheFile \in CacheFiles
    /\ front \in {"cli", "daemon"} /\ cmd = "none" /\ cmdPc = "start"

CmdNext ==
    \/ CliStart \/ DaemonRun \/ DaemonAccept \/ DaemonClose
    \/ ParseT \/ LoadPalette \/ CheckPalette \/ BuildPalette
    \/ StCall \/ AnalyseSave \/ ComputeMetrics
    \/ DitherLoadImage \/ DitherMethod \/ DitherSave

CmdSpec == CmdInit /\ [][CmdNext]_vars

\* ------------------------------------------- the same widgets, both ways
\* analyse_main: every widget closure is a fixed sequence of calls on its
\* graph provider and its cache provider (a title, then the widget's render),
\* and the key of a plot names its producer.
KeyProducer(key) == IF key = "RectJCh" THEN PlotDataOf(1) ELSE PlotDataOf(2)
DrawCall == [NoOp EXCEPT !.kind = "draw"]
PlotCall(key) == [NoOp EXCEPT !.kind = "plot", !.key = key, !.f = Some(KeyProducer(key))]
GetCall(w) == CHOOSE op \in CacheOps(5500) : op.kind = (IF w % 2 = 1 THEN "boundary" ELSE "spectrum")
WidgetPrograms(w) == {<<DrawCall>>, <<GetCall(w), DrawCall>>}
                     \cup {<<PlotCall(k)>> : k \in Keys}
                     \cup {<<DrawCall, PlotCall(k)>> : k \in Keys}
                     \cup {<<PlotCall(k), DrawCall>> : k \in Keys}
Layouts == {[prog |-> p, ops |-> [w \in Workers |-> {p[w][i] : i \in 1..Len(p[w])} \ {DrawCall}]] :
               p \in {q \in [Workers -> UNION {WidgetPrograms(w) : w \in Workers}] :
                        /\ \A w \in Workers : q[w] \in WidgetPrograms(w)
                        /\ SumTo([w \in Workers |-> Len(q[w])], NumWorkers) <= MaxOps}}

\* The cache file of the run: the one of the other runs, or one that holds
\* a plot stored under "Spectrum" by an earlier run.
EquivCacheFiles == AnalyseCacheFiles \cup
    {[kind |-> "ok", cacher |-> [BigCacher_new EXCEPT !.plots = MapInsert(<<>>, <<5500, "Spectrum">>, PlotDataOf(NumPixels + 2))]]}

\* analyse_singlethreaded: analyse_main with just_run runs every closure at
\* once, in the order of the layout, on the ImageGraph and the
\* SinglethreadedCacheProvider.
st_call(s, w, call) ==
    IF call.kind = "draw" THEN [s EXCEPT !.img = put_pixel(s.img, DrawPixel(w), DrawColour(w))]
    ELSE LET g == SinglethreadedGet(s.cacher, 5500, call)
         IN [img |-> IF call.kind = "plot" THEN plot_data(s.img, Unwrap(g.ret)) ELSE s.img, cacher |-> g.cacher]
RECURSIVE just_run(_, _, _, _)
just_run(s, w, prog, i) == IF i > Len(prog) THEN s ELSE just_run(st_call(s, w, prog[i]), w, prog, i + 1)
RECURSIVE analyse_main_from(_, _, _)
analyse_main_from(s, progs, w) == IF w > NumWorkers THEN s ELSE analyse_main_from(just_run(s, w, progs[w], 1), progs, w + 1)
analyse_singlethreaded(progs, file, img) ==
    analyse_main_from([img |-> block(img, BgColour), cacher |-> BigCacher_init(file)], progs, 1)

EquivInit == /\ InitThreads /\ InitProcess /\ InitNoCall
             /\ cacheFile \in EquivCacheFiles
             /\ front = "cli" /\ cmd = "analyse" /\ cmdPc = "multithreaded"
             /\ layout \in Layouts

\* The call a widget closure makes next.
NextCall(w) == IF opsDone[w] < Len(layout.prog[w]) THEN layout.prog[w][opsDone[w] + 1] ELSE NoOp
WidgetDraw(w) == NextCall(w).kind = "draw" /\ WorkerDraw(w)
WidgetRequest(w) == NextCall(w).kind \in CacheKinds /\ WorkerRequest(w) /\ cur'[w] = [NextCall(w) EXCEPT !.nState = 1]
WidgetFinish(w) == opsDone[w] = Len(layout.prog[w]) /\ WorkerFinish(w)

EquivNext ==
    \/ MainInit \/ MainRegister \/ MainRegisterEnd
    \/ \E i \in 1..NumWorkers : CacheHostRecv(i)
    \/ \E i \in 1..NumWorkers : CacheHostDisconnect(i)
    \/ CacheHostExit \/ MainJoin \/ MainSaveCache
    \/ AnSetup \/ AnInitState \/ AnRegister \/ AnRecvProvider \/ AnRunAll \/ AnSave
    \/ \E i \in 1..NumWorkers : GraphHostRecv(i)
    \/ \E i \in 1..NumWorkers : GraphHostDisconnect(i)
    \/ GraphHostExit
    \/ \E w \in Workers : WidgetDraw(w) \/ WidgetRequest(w) \/ WorkerRecv(w) \/ WorkerBlit(w) \/ WidgetFinish(w)

EquivSpec == EquivInit /\ [][EquivNext]_vars

\* ======================================================================
\* Library functions, examined one call at a time
\* ======================================================================
\* The process around the call: nothing of the commands is running.
InitLibrary ==
    /\ InitThreads /\ InitProcess
    /\ layout = FullLayout
    /\ cacheFile = [kind |-> "unreadable"]
    /\ front = "none" /\ cmd = "none" /\ cmdPc = "none"

\* The step of a call leaves everything outside the call alone.
LibraryUnchanged == UNCHANGED <<cacheFile, cacher, T, image, imageFile, mtVars, cmdVars>>

\* ------------------------------------------------------- ImageGraph::save
\* The image buffers a graph can hold, and its ICC profile.
Buffers == [Pixels -> 0..NumColours]
Profiles == {None, Some("icc")}
\* The file under the output name: absent, a complete PNG of an image with
\* or without an iCCP chunk, or a truncated file (created, not or not
\* completely written).
AbsentFile == [kind |-> "absent", image |-> None, icc |-> None]
TruncatedFile == [kind |-> "truncated", image |-> None, icc |-> None]
PngFile(img, icc) == [kind |-> "png", image |-> Some(img), icc |-> icc]

\* ImageGraph::save returns r.
SaveReturn(r) == ret' = Some(r) /\ local' = [local EXCEPT !.pc = "returned"]

\* self.buffer.save(&name)?  The write may fail before the file is created
\* or while it is written.
SaveWrite ==
    /\ fnCall.fn = "save" /\ local.pc = "write"
    /\ \E outcome \in {"ok", "create fails", "write fails"} :
         CASE outcome = "ok" ->
                IF IsSome(fnCall.graph.icc_profile)
                THEN /\ local' = [local EXCEPT !.pc = "read", !.written = TRUE, !.file = PngFile(fnCall.graph.buffer, None)]
                     /\ ret' = ret
                ELSE /\ local' = [local EXCEPT !.pc = "returned", !.written = TRUE, !.file = PngFile(fnCall.graph.buffer, None)]
                     /\ ret' = Some("Ok")
           [] outcome = "create fails" -> SaveReturn("Err")
           [] OTHER -> /\ local' = [local EXCEPT !.pc = "returned", !.file = TruncatedFile]
                       /\ ret' = Some("Err")
    /\ fnCall' = fnCall
    /\ LibraryUnchanged

\* std::fs::read(&name): Err(_) => return Ok(())
SaveIccRead ==
    /\ fnCall.fn = "save" /\ local.pc = "read"
    /\ \E ok \in BOOLEAN :
         IF ok THEN local' = [local EXCEPT !.pc = "parse", !.data = Some(local.file)] /\ ret' = ret
         ELSE SaveReturn("Ok")
    /\ fnCall' = fnCall
    /\ LibraryUnchanged

\* Png::from_bytes(data.into()): Err(_) => return Ok(()); then
\* png.set_icc_profile(Some(icc_profile.clone())).
SaveIccParse ==
    /\ fnCall.fn = "save" /\ local.pc = "parse"
    /\ \E ok \in BOOLEAN :
         IF ok /\ Unwrap(local.data).kind = "png"
         THEN /\ local' = [local EXCEPT !.pc = "create", !.png = Some([Unwrap(local.data) EXCEPT !.icc = fnCall.graph.icc_profile])]
              /\ ret' = ret
         ELSE SaveReturn("Ok")
    /\ fnCall' = fnCall
    /\ LibraryUnchanged

\* std::fs::File::create(&name) truncates the file: Err(_) => return Ok(())
SaveIccCreate ==
    /\ fnCall.fn = "save" /\ local.pc = "create"
    /\ \E ok \in BOOLEAN :
         IF ok THEN local' = [local EXCEPT !.pc = "rewrite", !.file = TruncatedFile] /\ ret' = ret
         ELSE SaveReturn("Ok")
    /\ fnCall' = fnCall
    /\ LibraryUnchanged

\* let _ = png.encoder().write_to(file); Ok(())
SaveIccRewrite ==
    /\ fnCall.fn = "save" /\ local.pc = "rewrite"
    /\ \E ok \in BOOLEAN :
         /\ local' = [local EXCEPT !.pc = "returned", !.file = IF ok THEN Unwrap(local.png) ELSE TruncatedFile]
         /\ ret' = Some("Ok")
    /\ fnCall' = fnCall
    /\ LibraryUnchanged

\* graph.save(name) is called on a graph with any buffer, with or without
\* a profile, the output file absent or left by an earlier run.
SaveInit ==
    /\ InitLibrary
    /\ fnCall \in {[fn |-> "save", graph |-> [buffer |-> b, icc_profile |-> p]] : b \in Buffers, p \in Profiles}
    /\ local \in {[pc |-> "write", written |-> FALSE, file |-> f, data |-> None, png |-> None] :
                      f \in {AbsentFile, PngFile([x \in Pixels |-> 0], None)}}
    /\ ret = None

SaveNext == SaveWrite \/ SaveIccRead \/ SaveIccParse \/ SaveIccCreate \/ SaveIccRewrite

SaveSpec == SaveInit /\ [][SaveNext]_vars

\* ------------------------------------------------------------- Palette
\* CAM16-UCS colours on a grid.  Coordinates are counted in half grid steps,
\* so that the midpoint of two palette colours is exact; f32 distances are
\* fixed-point numbers with Resolution units per half step, rounded down.
CamColours == {[J |-> 2 * j, a |-> 2 * x, b |-> 0] : j \in 0..MaxCoord, x \in 0..1}
\* The cam16 vector of a Palette: any colours, repeated ones included
\* (compute and dither build a Palette without check_palette).
RECURSIVE SeqsUpTo(_, _)
SeqsUpTo(S, n) == IF n = 0 THEN {<<>>} ELSE LET R == SeqsUpTo(S, n - 1) IN R \cup {Append(r, x) : r \in {q \in R : Len(q) = n - 1}, x \in S}
Cam16s == SeqsUpTo(CamColours, MaxPalette) \ {<<>>}

RECURSIVE ISqrtIn(_, _, _)
ISqrtIn(n, lo, hi) == IF lo = hi THEN lo
                      ELSE LET mid == (lo + hi + 1) \div 2
                           IN IF mid * mid <= n THEN ISqrtIn(n, mid, hi) ELSE ISqrtIn(n, lo, mid - 1)
ISqrt(n) == ISqrtIn(n, 0, IF n < 40000 THEN n ELSE 40000)
Abs(x) == IF x < 0 THEN -x ELSE x

\* CAM16UCS::dist
SqDist(x, y) == (x.J - y.J) * (x.J - y.J) + (x.a - y.a) * (x.a - y.a) + (x.b - y.b) * (x.b - y.b)
\* The square roots of the squared distances that occur on the grid.
Roots == [k \in 0..(4 * MaxCoord * MaxCoord + 4) |-> ISqrt(Resolution * Resolution * k)]
CAM16UCS_dist(x, y) == Roots[SqDist(x, y)]
\* CAM16UCS::dist_limatch, for limatch = tenths / 10; the value is in tenths
\* of a distance unit.
dist_limatch(x, y, tenths) == (10 - tenths) * CAM16UCS_dist(x, y) + tenths * Resolution * Abs(x.J - y.J)

\* Palette::minimise over the scores score(0, cam16[0]), score(1, cam16[1]), ..
\* (indices are counted from 1 here).
RECURSIVE minimise_from(_, _, _, _)
minimise_from(scores, i, min, argmin) ==
    IF i > Len(scores) THEN argmin
    ELSE IF scores[i] < min THEN minimise_from(scores, i + 1, scores[i], i)
    ELSE minimise_from(scores, i + 1, min, argmin)
minimise(scores) == minimise_from(scores, 1, F32_MAX, 1)

\* Palette::new, the role indices.  The bg score -(not_bl^0.02 * not_grey^0.98)
\* is not computed: it is finite and not positive for every colour, and
\* every index is tried as the one that scores least (favoured).
Origin == [J |-> 0, a |-> 0, b |-> 0]
bg_score(cam16, i, favoured) == IF i = favoured THEN -1 ELSE 0
Palette_roles_unguarded(cam16, favoured) ==
    LET n == Len(cam16)
        bl == minimise([i \in 1..n |-> CAM16UCS_dist(cam16[i], Origin)])
        bg == minimise([i \in 1..n |-> bg_score(cam16, i, favoured)])
        fg == minimise([i \in 1..n |-> -CAM16UCS_dist(cam16[i], cam16[bl])])
        tl == minimise([i \in 1..n |-> -dist_limatch(cam16[i], cam16[bg], 6)])
    IN [bl |-> bl, bg |-> bg, fg |-> fg, tl |-> tl]
Palette_roles(cam16, favoured) ==
    LET n == Len(cam16)
        bl == minimise([i \in 1..n |-> CAM16UCS_dist(cam16[i], Origin)])
        bg == minimise([i \in 1..n |-> IF i = bl THEN F32_MAX ELSE bg_score(cam16, i, favoured)])
        fg == minimise([i \in 1..n |-> IF i = bl THEN F32_MAX ELSE -CAM16UCS_dist(cam16[i], cam16[bl])])
        tl == minimise([i \in 1..n |-> IF i = bg THEN F32_MAX ELSE -dist_limatch(cam16[i], cam16[bg], 6)])
    IN [bl |-> bl, bg |-> bg, fg |-> fg, tl |-> tl]

\* slice::sort_by_key (stable, ascending) on records with a key field d.
RECURSIVE InsertByKey(_, _)
InsertByKey(sorted, e) == IF sorted = <<>> THEN <<e>>
                          ELSE IF sorted[Len(sorted)].d <= e.d THEN Append(sorted, e)
                          ELSE Append(InsertByKey(SubSeq(sorted, 1, Len(sorted) - 1), e), sorted[Len(sorted)])
RECURSIVE sort_by_key_from(_, _, _)
sort_by_key_from(s, i, acc) == IF i > Len(s) THEN acc ELSE sort_by_key_from(s, i + 1, InsertByKey(acc, s[i]))
sort_by_key(s) == sort_by_key_from(s, 1, <<>>)

\* for i in 0..n-1 { for j in i+1..n { pairs.push((i, j)) } }
RECURSIVE pairs_from(_, _, _)
pairs_from(n, i, j) == IF i >= n THEN <<>>
                       ELSE IF j > n THEN pairs_from(n, i + 1, i + 2)
                       ELSE <<[i |-> i, j |-> j]>> \o pairs_from(n, i, j + 1)
all_pairs(n) == pairs_from(n, 1, 2)

\* Vec::swap_remove(k)
SwapRemove(s, k) == IF k = Len(s) THEN SubSeq(s, 1, Len(s) - 1)
                    ELSE [SubSeq(s, 1, Len(s) - 1) EXCEPT ![k] = s[Len(s)]]

\* Palette::is_acyclic: find_k, the search for a third colour connected to
\* both ends, and the loop over the sorted pairs.
RECURSIVE find_k_from(_, _, _)
find_k_from(clusters, i, k) == IF k > Len(clusters) THEN 0
                               ELSE IF i \in clusters[k] THEN k
                               ELSE find_k_from(clusters, i, k + 1)
find_k(clusters, i) == find_k_from(clusters, i, 1)
no_two_hop_one_sided(connected, i, j, n) == ~ \E k \in 1..n : <<i, k>> \in connected
no_two_hop(connected, i, j, n) == ~ \E k \in 1..n : <<i, k>> \in connected /\ <<k, j>> \in connected
RECURSIVE is_acyclic_from(_, _, _, _, _)
RECURSIVE is_acyclic_from_unmarked(_, _, _, _, _)
is_acyclic_from_unmarked(pairs, t, connected, clusters, n) ==
    IF t > Len(pairs) THEN TRUE
    ELSE LET i == pairs[t].i
             j == pairs[t].j
             ki == find_k(clusters, i)
             kj == find_k(clusters, j)
         IN IF ki # kj
            THEN is_acyclic_from_unmarked(pairs, t + 1, connected, SwapRemove([clusters EXCEPT ![ki] = clusters[ki] \cup clusters[kj]], kj), n)
            ELSE IF no_two_hop(connected, i, j, n) THEN FALSE
            ELSE is_acyclic_from_unmarked(pairs, t + 1, connected, clusters, n)
is_acyclic_from(pairs, t, connected, clusters, n) ==
    IF t > Len(pairs) THEN TRUE
    ELSE LET i == pairs[t].i
             j == pairs[t].j
             ki == find_k(clusters, i)
             kj == find_k(clusters, j)
             linked == connected \cup {<<i, j>>, <<j, i>>}
         IN IF ki # kj
            THEN is_acyclic_from(pairs, t + 1, linked, SwapRemove([clusters EXCEPT ![ki] = clusters[ki] \cup clusters[kj]], kj), n)
            ELSE IF no_two_hop(connected, i, j, n) THEN FALSE
            ELSE is_acyclic_from(pairs, t + 1, linked, clusters, n)
sorted_pairs(cam16) == sort_by_key([t \in 1..Len(all_pairs(Len(cam16))) |->
                           LET pr == all_pairs(Len(cam16))[t]
                           IN [i |-> pr.i, j |-> pr.j, d |-> CAM16UCS_dist(cam16[pr.i], cam16[pr.j])]])
is_acyclic(cam16) ==
    LET n == Len(cam16)
    IN is_acyclic_from(sorted_pairs(cam16), 1, {<<i, i>> : i \in 1..n}, [i \in 1..n |-> {i}], n)


\* Palette::is_acyclic, one round of for ((i, j), _) in pairs, on the locals
\* l = [pc, t, connected, clusters, pairs]; pc = "returned" after return false.
acyclic_start(cam16) ==
    [pc |-> "loop", t |-> 1, connected |-> {<<i, i>> : i \in 1..Len(cam16)},
     clusters |-> [i \in 1..Len(cam16) |-> {i}], pairs |-> sorted_pairs(cam16)]
acyclic_visit_join_only(l, n) ==
    LET i == l.pairs[l.t].i
        j == l.pairs[l.t].j
        ki == find_k(l.clusters, i)
        kj == find_k(l.clusters, j)
        linked == l.connected \cup {<<i, j>>, <<j, i>>}
    IN IF ki # kj
       THEN [l EXCEPT !.t = @ + 1, !.connected = linked,
                      !.clusters = SwapRemove([l.clusters EXCEPT ![ki] = l.clusters[ki] \cup l.clusters[kj]], kj)]
       ELSE IF no_two_hop(l.connected, i, j, n) THEN [l EXCEPT !.pc = "returned"]
       ELSE [l EXCEPT !.t = @ + 1]
acyclic_visit(l, n) ==
    LET i == l.pairs[l.t].i
        j == l.pairs[l.t].j
        ki == find_k(l.clusters, i)
        kj == find_k(l.clusters, j)
        linked == l.connected \cup {<<i, j>>, <<j, i>>}
    IN IF ki # kj
       THEN [l EXCEPT !.t = @ + 1, !.connected = linked,
                      !.clusters = SwapRemove([l.clusters EXCEPT ![ki] = l.clusters[ki] \cup l.clusters[kj]], kj)]
       ELSE IF no_two_hop(l.connected, i, j, n) THEN [l EXCEPT !.pc = "returned"]
       ELSE [l EXCEPT !.t = @ + 1, !.connected = linked]

\* Palette::useful_mixes: score_added, mix, and the selection loop.
RECURSIVE score_added_from(_, _, _, _)
score_added_from(cam16, x, i, min) ==
    IF i > Len(cam16) THEN min
    ELSE LET d == CAM16UCS_dist(x, cam16[i])
         IN score_added_from(cam16, x, i + 1, IF d < min THEN d ELSE min)
score_added(cam16, x) == score_added_from(cam16, x, 1, F32_MAX)
mix(cam16, i, j) == [J |-> (cam16[i].J + cam16[j].J) \div 2, a |-> (cam16[i].a + cam16[j].a) \div 2, b |-> (cam16[i].b + cam16[j].b) \div 2]
Min(x, y) == IF x < y THEN x ELSE y
\* scores.last() of the sorted scores.
best_of_first(sorted) == sorted[1]
best_of(sorted) == sorted[Len(sorted)]
\* scores.retain(|&(_, pair)| pair != best_pair)
RECURSIVE retain_other(_, _)
retain_other(scores, best) == IF scores = <<>> THEN <<>>
                              ELSE IF scores[1].i = best.i /\ scores[1].j = best.j THEN retain_other(Tail(scores), best)
                              ELSE <<scores[1]>> \o retain_other(Tail(scores), best)
RECURSIVE useful_mixes_loop(_, _, _, _)
useful_mixes_loop(cam16, scores, mixes, max) ==
    IF Len(mixes) >= max THEN mixes
    ELSE LET sorted == sort_by_key(scores)
             best == best_of(sorted)
             mixed == mix(cam16, best.i, best.j)
             kept == retain_other(sorted, best)
         IN useful_mixes_loop(cam16,
                              [t \in 1..Len(kept) |-> [kept[t] EXCEPT !.d = @ + CAM16UCS_dist(mix(cam16, kept[t].i, kept[t].j), mixed)]],
                              Append(mixes, [i |-> best.i, j |-> best.j]),
                              max)
useful_mixes(cam16, max) ==
    LET n == Len(cam16)
        pairs == all_pairs(n)
    IN useful_mixes_loop(cam16,
                         [t \in 1..Len(pairs) |-> [i |-> pairs[t].i, j |-> pairs[t].j, d |-> score_added(cam16, mix(cam16, pairs[t].i, pairs[t].j))]],
                         <<>>,
                         Min(max, (n * (n - 1)) \div 2))

\* A Palette with the cam16 vector c has been built or is being built.
PaletteInit ==
    /\ InitLibrary
    /\ fnCall \in {[fn |-> "none", cam16 |-> c, max |-> 0, favoured |-> 0] : c \in Cam16s}
    /\ local = None
    /\ ret = None

\* Palette::new(rgb, ill, grey_ui): the role indices it selects.
CallPaletteNew ==
    /\ fnCall.fn = "none"
    /\ \E k \in 1..Len(fnCall.cam16) :
         /\ fnCall' = [fnCall EXCEPT !.fn = "Palette::new", !.favoured = k]
         /\ ret' = Some(Palette_roles(fnCall.cam16, k))
    /\ local' = local
    /\ LibraryUnchanged

\* palette.is_acyclic()
CallIsAcyclic ==
    /\ fnCall.fn = "none"
    /\ fnCall' = [fnCall EXCEPT !.fn = "is_acyclic"]
    /\ ret' = Some(is_acyclic(fnCall.cam16))
    /\ local' = local
    /\ LibraryUnchanged

\* palette.useful_mixes(max)
CallUsefulMixes ==
    /\ fnCall.fn = "none"
    /\ \E max \in 0..MaxMixes :
         /\ fnCall' = [fnCall EXCEPT !.fn = "useful_mixes", !.max = max]
         /\ ret' = Some(useful_mixes(fnCall.cam16, max))
    /\ local' = local
    /\ LibraryUnchanged

PaletteNext == CallPaletteNew \/ CallIsAcyclic \/ CallUsefulMixes

PaletteSpec == PaletteInit /\ [][PaletteNext]_vars

\* Palette::is_acyclic followed round by round.
AcyclicInit ==
    /\ InitLibrary
    /\ fnCall \in {[fn |-> "is_acyclic", cam16 |-> c] : c \in Cam16s}
    /\ local = acyclic_start(fnCall.cam16)
    /\ ret = None

AcyclicVisit ==
    /\ fnCall.fn = "is_acyclic" /\ local.pc = "loop"
    /\ local.t <= Len(local.pairs)
    /\ local' = acyclic_visit(local, Len(fnCall.cam16))
    /\ ret' = IF local'.pc = "returned" THEN Some(FALSE) ELSE ret
    /\ fnCall' = fnCall
    /\ LibraryUnchanged

\* return true
AcyclicReturn ==
    /\ fnCall.fn = "is_acyclic" /\ local.pc = "loop"
    /\ local.t > Len(local.pairs)
    /\ local' = [local EXCEPT !.pc = "returned"]
    /\ ret' = Some(TRUE)
    /\ fnCall' = fnCall
    /\ LibraryUnchanged

AcyclicNext == AcyclicVisit \/ AcyclicReturn

AcyclicSpec == AcyclicInit /\ [][AcyclicNext]_vars

\* ------------------------------------------- BigCacher::compute_spectrum
\* An f32 quotient of two exact values: 0/0 is NaN, x/0 an infinity.
f32_div(num, den) == IF den # 0 THEN <<num, den>> ELSE IF num = 0 THEN "NaN" ELSE "inf"

\* compute_spectrum, the body of the loop for sample i (0-based) with
\* ratio = k / RatioSteps: x = i / (n - 1); if x <= ratio the sample is the
\* monochromatic colour at the wavelength interpolated at x / ratio, else
\* the mix of the endpoints max (6650) and min (4100) at (x - ratio) / (1 - ratio).
spectrum_sample(i, n, k) ==
    IF i * RatioSteps <= k * (n - 1)
    THEN [branch |-> "locus", at |-> f32_div(i * RatioSteps, k * (n - 1))]
    ELSE [branch |-> "mix", at |-> f32_div(i * RatioSteps - k * (n - 1), (RatioSteps - k) * (n - 1))]

SpectrumInit ==
    /\ InitLibrary
    /\ fnCall \in {[fn |-> "compute_spectrum", ratio |-> k] : k \in 0..RatioSteps}
    /\ local = [i |-> 0, data |-> <<>>]
    /\ ret = None

\* for i in 0..n { .. data.push(cam16) }
SpectrumPush ==
    /\ fnCall.fn = "compute_spectrum" /\ ret = None
    /\ local.i < SpectrumSamples
    /\ local' = [i |-> local.i + 1, data |-> Append(local.data, spectrum_sample(local.i, SpectrumSamples, fnCall.ratio))]
    /\ UNCHANGED <<fnCall, ret>>
    /\ LibraryUnchanged

\* return data
SpectrumReturn ==
    /\ fnCall.fn = "compute_spectrum" /\ ret = None
    /\ local.i = SpectrumSamples
    /\ ret' = Some(local.data)
    /\ UNCHANGED <<fnCall, local>>
    /\ LibraryUnchanged

SpectrumNext == SpectrumPush \/ SpectrumReturn

SpectrumSpec == SpectrumInit /\ [][SpectrumNext]_vars

\* ----------------------------------------------------- ThresholdMatrix
\* A w x h matrix is a function on the cells <<x, y>> (column x, row y,
\* both counted from 0): order[y][x] of the code is order[<<x, y>>].
Cells(w, h) == (0..(w - 1)) \X (0..(h - 1))
set_cell(m, c, v) == [m EXCEPT ![c] = v]

\* ThresholdMatrix::bayer, one round of the loop: the matrix of side 2d made
\* from the matrix of side d.
bayer_step_swapped(order, d) ==
    [c \in Cells(2 * d, 2 * d) |->
        4 * order[<<c[1] % d, c[2] % d>>]
        + (IF c[1] < d /\ c[2] < d THEN 0 ELSE IF c[1] >= d /\ c[2] < d THEN 3 ELSE IF c[1] < d THEN 2 ELSE 1)]
bayer_step(order, d) ==
    [c \in Cells(2 * d, 2 * d) |->
        4 * order[<<c[1] % d, c[2] % d>>]
        + (IF c[1] < d /\ c[2] < d THEN 0 ELSE IF c[1] >= d /\ c[2] < d THEN 2 ELSE IF c[1] < d THEN 3 ELSE 1)]

\* ThresholdMatrix::binary of a whitenoise(w, h) matrix: whitenoise puts the
\* ranks 0 .. w*h-1 on the cells in a random order, and binary marks the
\* cells with at(x, y) > 0.5, that is with 2 * rank > w*h - 1.  The
\* patterns it can give are those with as many marked cells as there are
\* such ranks.
HighRanks(w, h) == {r \in 0..(w * h - 1) : 2 * r > w * h - 1}
BinaryPatterns(w, h) == {[c \in Cells(w, h) |-> c \in S] : S \in {X \in SUBSET Cells(w, h) : Cardinality(X) = Cardinality(HighRanks(w, h))}}

\* exp(-t^2 / 2) for t = dr / 1.5, as a fixed-point number, by dr^2 = 0, 1, 2, ..
GaussWeights == <<10000, 8007, 6412, 5134, 4111, 3292, 2636, 2111, 1690>>
cyclic_clip(v, period) == v % period
RECURSIVE SumOver(_, _)
SumOver(S, f) == IF S = {} THEN 0 ELSE LET e == CHOOSE x \in S : TRUE IN f[e] + SumOver(S \ {e}, f)

\* ThresholdMatrix::cluster(data, w, h, val)
ClusterAt(data, w, h, val, x, y) ==
    LET radius == Min(w, h) \div 2
        window == ((x - radius)..(x + radius)) \X ((y - radius)..(y + radius))
    IN SumOver(window, [o \in window |->
           LET xx == cyclic_clip(o[1], w)
               yy == cyclic_clip(o[2], h)
               dx == Min(Abs(x - xx), w - Abs(x - xx))
               dy == Min(Abs(y - yy), h - Abs(y - yy))
           IN IF data[<<xx, yy>>] = val THEN GaussWeights[dx * dx + dy * dy + 1] ELSE 0])
cluster_unguarded(data, w, h, val) == [c \in Cells(w, h) |-> ClusterAt(data, w, h, val, c[1], c[2])]
cluster(data, w, h, val) == [c \in Cells(w, h) |-> IF data[c] = val THEN ClusterAt(data, w, h, val, c[1], c[2]) ELSE 0]

\* ThresholdMatrix::argmax: x in the outer loop, y in the inner one, a cell
\* replaces the best one only when its value is greater.
RECURSIVE argmax_from(_, _, _, _, _)
argmax_from(data, w, h, idx, best) ==
    IF idx >= w * h THEN best
    ELSE LET c == <<idx \div h, idx % h>>
         IN argmax_from(data, w, h, idx + 1, IF data[c] > data[best] THEN c ELSE best)
argmax(data, w, h) == argmax_from(data, w, h, 0, <<0, 0>>)

\* bluenoise: one round of the first loop, which moves the mark of the
\* tightest cluster to the largest void until the two coincide (rounds
\* counts the rounds made).
blue_loop(l, w, h) ==
    LET c1 == argmax(cluster(l.initial, w, h, TRUE), w, h)
        removed == set_cell(l.initial, c1, FALSE)
        c0 == argmax(cluster(removed, w, h, FALSE), w, h)
    IN IF c0 = c1
       THEN LET final == set_cell(removed, c1, TRUE)
                ones == Cardinality({c \in Cells(w, h) : final[c]})
            IN [l EXCEPT !.pc = "ones", !.initial = final, !.state = final, !.ones = ones, !.rank = ones,
                         !.rounds = @ + 1]
       ELSE [l EXCEPT !.initial = set_cell(removed, c0, TRUE), !.state = set_cell(removed, c0, TRUE),
                      !.rounds = @ + 1]

\* bluenoise: for rank in (0..ones).rev(), one round; after the last one
\* state = initial.
blue_rank_one(l, w, h) ==
    IF l.rank = 0
    THEN [l EXCEPT !.pc = "voids", !.state = l.initial, !.rank = l.ones]
    ELSE LET c1 == argmax(cluster(l.state, w, h, TRUE), w, h)
         IN [l EXCEPT !.state = set_cell(l.state, c1, FALSE),
                      !.order = set_cell(l.order, c1, l.rank - 1),
                      !.rank = @ - 1]

\* bluenoise: for rank in ones..w*h, one round.
blue_rank_void(l, w, h) ==
    LET c0 == argmax(cluster(l.state, w, h, FALSE), w, h)
    IN [l EXCEPT !.state = set_cell(l.state, c0, TRUE),
                 !.order = set_cell(l.order, c0, l.rank),
                 !.rank = @ + 1]

\* The locals of bluenoise(w, h) when it starts from the binary pattern b.
blue_start(b, w, h) ==
    [pc |-> "loop", initial |-> b, state |-> b, order |-> [c \in Cells(w, h) |-> 0], ones |-> 0, rank |-> 0, rounds |-> 0]

\* ThresholdMatrix::bayer(n) or ThresholdMatrix::bluenoise(w, h) is called;
\* bluenoise starts from the binary pattern of a white-noise matrix.
MatrixInit ==
    /\ InitLibrary
    /\ \/ /\ fnCall \in {[fn |-> "bayer", n |-> n, w |-> 0, h |-> 0] : n \in 0..MaxBayer}
          /\ local = [pc |-> "loop", d |-> 1, order |-> [c \in Cells(1, 1) |-> 0], k |-> 0]
       \/ /\ fnCall \in {[fn |-> "bluenoise", n |-> 0, w |-> w, h |-> h] : w \in 1..MaxW, h \in 1..MaxH}
          /\ local \in {blue_start(b, fnCall.w, fnCall.h) : b \in BinaryPatterns(fnCall.w, fnCall.h)}
    /\ ret = None

\* bayer: one round of for _ in 0..n.
BayerStep ==
    /\ fnCall.fn = "bayer" /\ local.pc = "loop"
    /\ local.k < fnCall.n
    /\ local' = [local EXCEPT !.order = bayer_step(local.order, local.d), !.d = 2 * local.d, !.k = @ + 1]
    /\ UNCHANGED <<fnCall, ret>>
    /\ LibraryUnchanged

\* bayer: Self { w: d, h: d, order }
BayerReturn ==
    /\ fnCall.fn = "bayer" /\ local.pc = "loop"
    /\ local.k = fnCall.n
    /\ ret' = Some([w |-> local.d, h |-> local.d, order |-> local.order])
    /\ local' = [local EXCEPT !.pc = "returned"]
    /\ fnCall' = fnCall
    /\ LibraryUnchanged

BlueLoop ==
    /\ fnCall.fn = "bluenoise" /\ local.pc = "loop"
    /\ local' = blue_loop(local, fnCall.w, fnCall.h)
    /\ UNCHANGED <<fnCall, ret>>
    /\ LibraryUnchanged

BlueRankOne ==
    /\ fnCall.fn = "bluenoise" /\ local.pc = "ones"
    /\ local' = blue_rank_one(local, fnCall.w, fnCall.h)
    /\ UNCHANGED <<fnCall, ret>>
    /\ LibraryUnchanged

BlueRankVoid ==
    /\ fnCall.fn = "bluenoise" /\ local.pc = "voids"
    /\ local.rank < fnCall.w * fnCall.h
    /\ local' = blue_rank_void(local, fnCall.w, fnCall.h)
    /\ UNCHANGED <<fnCall, ret>>
    /\ LibraryUnchanged

\* bluenoise: Self { w, h, order }
BlueReturn ==
    /\ fnCall.fn = "bluenoise" /\ local.pc = "voids"
    /\ local.rank = fnCall.w * fnCall.h
    /\ ret' = Some([w |-> fnCall.w, h |-> fnCall.h, order |-> local.order])
    /\ local' = [local EXCEPT !.pc = "returned"]
    /\ fnCall' = fnCall
    /\ LibraryUnchanged

MatrixNext == BayerStep \/ BayerReturn \/ BlueLoop \/ BlueRankOne \/ BlueRankVoid \/ BlueReturn

MatrixSpec == MatrixInit /\ [][MatrixNext]_vars

\* ------------------------------------------------------------ Ditherer
\* The matrices the constructors return.
RECURSIVE bayer_from(_, _, _)
bayer_from(order, d, k) == IF k = 0 THEN [w |-> d, h |-> d, order |-> order] ELSE bayer_from(bayer_step(order, d), 2 * d, k - 1)
bayer(n) == bayer_from([c \in Cells(1, 1) |-> 0], 1, n)

\* ThresholdMatrix::whitenoise(w, h): a random permutation of 0 .. w*h-1
\* laid out on the cells.
whitenoise(w, h) ==
    {[w |-> w, h |-> h, order |-> f] : f \in {g \in [Cells(w, h) -> 0..(w * h - 1)] : \A c, e \in Cells(w, h) : g[c] = g[e] => c = e}}

\* ThresholdMatrix::bluenoise(w, h) run to its end from the binary pattern b.
RECURSIVE bluenoise_run(_, _, _)
bluenoise_run(l, w, h) ==
    IF l.pc = "loop" THEN bluenoise_run(blue_loop(l, w, h), w, h)
    ELSE IF l.pc = "ones" THEN bluenoise_run(blue_rank_one(l, w, h), w, h)
    ELSE IF l.rank < w * h THEN bluenoise_run(blue_rank_void(l, w, h), w, h)
    ELSE [w |-> w, h |-> h, order |-> l.order]
bluenoise(w, h) == {bluenoise_run(blue_start(b, w, h), w, h) : b \in BinaryPatterns(w, h)}

\* ThresholdStructure::at for ThresholdMatrix, as the fraction num / den.
ThresholdMatrix_at(m, x, y) ==
    LET max == m.w * m.h - 1
    IN IF max = 0 THEN [num |-> 0, den |-> 1]
       ELSE [num |-> m.order[<<cyclic_clip(x, m.w), cyclic_clip(y, m.h)>>], den |-> max]

\* Palette::nearest of the colour x / scale.  The distances are compared by
\* their squares, in units of 1 / scale: the square root keeps their order.
Scaled(c, scale) == [J |-> scale * c.J, a |-> scale * c.a, b |-> scale * c.b]
Palette_nearest(cam16, x, scale) == minimise([i \in 1..Len(cam16) |-> SqDist(x, Scaled(cam16[i], scale))])

\* PackedF32 min and max of the palette's J.
RECURSIVE J_fold(_, _, _, _)
J_fold(cam16, i, best, greater) ==
    IF i > Len(cam16) THEN best
    ELSE J_fold(cam16, i + 1, IF (greater /\ cam16[i].J > best) \/ (~greater /\ cam16[i].J < best) THEN cam16[i].J ELSE best, greater)

\* OrderedDither::dither on an image of one row (row j = 0; the pixel
\* numbered x is column i = x - 1).  With J_spread = (J_max - J_min) / n and
\* at = num / den, the colour c moved by J_spread * (at - 0.5) is, in units
\* of 1 / (2 n den), the colour below; rgb[argmin] is given as cam16[argmin].
dither_pixel(cam16, threshold, c, i, j) ==
    LET n == Len(cam16)
        J_min == J_fold(cam16, 2, cam16[1].J, FALSE)
        J_max == J_fold(cam16, 2, cam16[1].J, TRUE)
        at == ThresholdMatrix_at(threshold, i, j)
        scale == 2 * n * at.den
        moved == [Scaled(c, scale) EXCEPT !.J = @ + (J_max - J_min) * (2 * at.num - at.den)]
    IN cam16[Palette_nearest(cam16, moved, scale)]
OrderedDither_dither(data, cam16, threshold) ==
    [x \in Pixels |-> IF data[x] = None THEN None ELSE Some(dither_pixel(cam16, threshold, Unwrap(data[x]), x - 1, 0))]

\* The palettes and images examined: greys of lightness 0 .. MaxJ.
Greys == {[J |-> j, a |-> 0, b |-> 0] : j \in 0..MaxJ}
GreyPalettes == SeqsUpTo(Greys, MaxGreys) \ {<<>>}
GreyImages == [Pixels -> {None} \cup {Some(c) : c \in Greys}]
NoiseSizes == (1..NumPixels) \X (1..MaxH)
BayerMatrices == [n \in 0..MaxBayer |-> bayer(n)]
WhiteNoiseMatrices == [s \in NoiseSizes |-> whitenoise(s[1], s[2])]
BlueNoiseMatrices == [s \in NoiseSizes |-> bluenoise(s[1], s[2])]

DitherInit ==
    /\ InitLibrary
    /\ fnCall \in {[fn |-> "none", cam16 |-> p, input |-> img, method |-> [kind |-> "unset", n |-> 0, w |-> 0, h |-> 0]] :
                       p \in GreyPalettes, img \in GreyImages}
    /\ local = None
    /\ ret = None

\* Ditherer::dither, one action for each arm of match method; local keeps
\* the threshold matrix the arm made.
DitherWith(method, matrix) ==
    /\ fnCall' = [fnCall EXCEPT !.fn = "dither", !.method = method]
    /\ local' = Some(matrix)
    /\ ret' = Some(OrderedDither_dither(fnCall.input, fnCall.cam16, matrix))
    /\ LibraryUnchanged

DitherNone ==
    /\ fnCall.fn = "none"
    /\ DitherWith([kind |-> "None", n |-> 0, w |-> 0, h |-> 0], BayerMatrices[0])

DitherBayer ==
    /\ fnCall.fn = "none"
    /\ \E n \in 0..MaxBayer : DitherWith([kind |-> "Bayer", n |-> n, w |-> 0, h |-> 0], BayerMatrices[n])

DitherWhiteNoise ==
    /\ fnCall.fn = "none"
    /\ \E s \in NoiseSizes : \E matrix \in WhiteNoiseMatrices[s] :
           DitherWith([kind |-> "WhiteNoise", n |-> 0, w |-> s[1], h |-> s[2]], matrix)

DitherBlueNoise ==
    /\ fnCall.fn = "none"
    /\ \E s \in NoiseSizes : \E matrix \in BlueNoiseMatrices[s] :
           DitherWith([kind |-> "BlueNoise", n |-> 0, w |-> s[1], h |-> s[2]], matrix)

DitherNext == DitherNone \/ DitherBayer \/ DitherWhiteNoise \/ DitherBlueNoise

DitherSpec == DitherInit /\ [][DitherNext]_vars

\* --------------------------------------------------------- main_compute
\* Palette::internal_similarity, the double loop: min is the least distance
\* seen (from min0 on) and sum the sum of the distances, of which the code
\* adds up the pair_n-th parts.
RECURSIVE similarity_loop(_, _, _, _, _)
similarity_loop(cam16, pairs, t, min, sum) ==
    IF t > Len(pairs) THEN [min |-> min, sum |-> sum]
    ELSE LET d == CAM16UCS_dist(cam16[pairs[t].i], cam16[pairs[t].j])
         IN similarity_loop(cam16, pairs, t + 1, IF d < min THEN d ELSE min, sum + d)
\* (mean / min) / n^(2/3), or NaN: the value is the quotient num / den
\* divided by n^(2/3); den is pair_n * min, and mean / f32::MAX counts as 0.
similarity_after(cam16, min0) ==
    LET n == Len(cam16)
        pair_n == (n * (n - 1)) \div 2
        l == similarity_loop(cam16, all_pairs(n), 1, min0, 0)
    IN IF l.min > 0
       THEN [nan |-> FALSE, num |-> IF l.min = F32_MAX THEN 0 ELSE l.sum, den |-> IF l.min = F32_MAX THEN 1 ELSE pair_n * l.min, n |-> n]
       ELSE [nan |-> TRUE, num |-> 0, den |-> 1, n |-> n]
internal_similarity_min0(cam16) == similarity_after(cam16, 0)
internal_similarity(cam16) == similarity_after(cam16, F32_MAX)

\* n^(2/3) in thousandths, for n = 1, 2, ..
TwoThirdsPowers == <<1000, 1587, 2080, 2520, 2924, 3302, 3659>>
\* format!("{:.2}", iss): "NaN", or the value rounded to hundredths.
NaN == [nan |-> TRUE, hundredths |-> 0]
Decimal(h) == [nan |-> FALSE, hundredths |-> h]
format_2(v) == IF v.nan THEN NaN
               ELSE LET den == v.den * TwoThirdsPowers[v.n]
                    IN Decimal((2 * 100000 * v.num + den) \div (2 * den))

Metrics == <<"iss", "acyclic">>
\* main_compute, the body of the last loop for one metric: the line printed.
metric_line(metric, cam16) == IF metric = "iss" THEN <<"iss", format_2(internal_similarity(cam16))>>
                              ELSE <<"acyclic", is_acyclic(cam16)>>

\* censor compute with a palette of cam16 colours; --all enables every metric.
ComputeInit ==
    /\ InitLibrary
    /\ fnCall \in {[fn |-> "main_compute", cam16 |-> c, enabled |-> IF all THEN {"iss", "acyclic"} ELSE e] :
                      c \in Cam16s, e \in SUBSET {"iss", "acyclic"}, all \in BOOLEAN}
    /\ local = [metric |-> 1, out |-> <<>>]
    /\ ret = None

\* for metric in metrics { if enabled[metric] { .. println!("{},{}", metric, v) } }
ComputeMetric ==
    /\ fnCall.fn = "main_compute" /\ ret = None
    /\ local.metric <= Len(Metrics)
    /\ local' = [metric |-> local.metric + 1,
                 out |-> IF Metrics[local.metric] \in fnCall.enabled
                         THEN Append(local.out, metric_line(Metrics[local.metric], fnCall.cam16))
                         ELSE local.out]
    /\ UNCHANGED <<fnCall, ret>>
    /\ LibraryUnchanged

ComputeReturn ==
    /\ fnCall.fn = "main_compute" /\ ret = None
    /\ local.metric > Len(Metrics)
    /\ ret' = Some(local.out)
    /\ UNCHANGED <<fnCall, local>>
    /\ LibraryUnchanged

ComputeNext == ComputeMetric \/ ComputeReturn

ComputeSpec == ComputeInit /\ [][ComputeNext]_vars

\* ------------------------------------- ImageGraph::plot, plot_polar, plot_data
\* The canvas is MaxW x MaxH pixels; a pixel is a cell <<x, y>> of it.
Canvas == Cells(MaxW, MaxH)

\* ImageGraph::put_pixel: writes off the canvas are dropped.
ImageGraph_put_pixel(img, x, y, c) ==
    IF x < 0 \/ y < 0 THEN img
    ELSE IF x < MaxW /\ y < MaxH THEN [img EXCEPT ![<<x, y>>] = c] ELSE img

\* The closure f of a plot: the sample it gives for column i, row j of the
\* plot (it is called with the coordinates computed from i and j).
Producers == {[colour |-> c, where |-> p] : c \in Colours, p \in {"all", "chequered"}} \cup {[colour |-> 1, where |-> "nowhere"]}
sample_of(f, i, j) == IF f.where = "all" \/ (f.where = "chequered" /\ (i + j) % 2 = 0) THEN Some(f.colour) ELSE None

\* plot, the closure g: plot_data.data[j][i] = f(x, y) for every i and j.
plot_g(w, h, f) == [c \in Cells(w, h) |-> sample_of(f, c[1], c[2])]
\* plot_polar: x = (i / (w - 1)) * 2 - 1, y = ((h - 1 - j) / (h - 1)) * 2 - 1,
\* r = hypot(x, y), and r <= 1 (false when a quotient is 0 / 0, that is NaN).
in_disk(w, h, i, j) ==
    /\ w > 1 /\ h > 1
    /\ (2 * i - (w - 1)) * (2 * i - (w - 1)) * (h - 1) * (h - 1)
         + (h - 1 - 2 * j) * (h - 1 - 2 * j) * (w - 1) * (w - 1) <= (w - 1) * (w - 1) * (h - 1) * (h - 1)
\* plot_polar, the closure g.
plot_polar_g(w, h, f) == [c \in Cells(w, h) |-> IF in_disk(w, h, c[1], c[2]) THEN sample_of(f, c[1], c[2]) ELSE None]
plot_closure(fn, w, h, f) == IF fn = "plot_polar" THEN plot_polar_g(w, h, f) ELSE plot_g(w, h, f)

\* ImageGraph::plot_data, from the k-th pair (i, j) of the double loop on.
RECURSIVE ImageGraph_plot_data_clearing(_, _, _, _, _, _, _)
ImageGraph_plot_data_clearing(img, x0, y0, w, h, data, k) ==
    IF k >= w * h THEN img
    ELSE LET i == k \div h
             j == k % h
             sample == data[<<i, j>>]
         IN ImageGraph_plot_data_clearing(ImageGraph_put_pixel(img, x0 + i, y0 + j, IF IsSome(sample) THEN Unwrap(sample) ELSE BgColour),
                                          x0, y0, w, h, data, k + 1)
RECURSIVE ImageGraph_plot_data(_, _, _, _, _, _, _)
ImageGraph_plot_data(img, x0, y0, w, h, data, k) ==
    IF k >= w * h THEN img
    ELSE LET i == k \div h
             j == k % h
             sample == data[<<i, j>>]
         IN ImageGraph_plot_data(IF IsSome(sample) THEN ImageGraph_put_pixel(img, x0 + i, y0 + j, Unwrap(sample)) ELSE img,
                                 x0, y0, w, h, data, k + 1)

\* A call of plot, plot_polar or plot_data on a canvas of colour 0, with a
\* rectangle that may reach over the canvas; for plot and plot_polar the
\* cacher may hold the matrix an earlier call of the same plot stored.
PlotCalls == {[fn |-> fn, x0 |-> x0, y0 |-> y0, w |-> w, h |-> h, f |-> f, stored |-> st] :
                 fn \in {"plot", "plot_polar", "plot_data"},
                 x0 \in -1..(MaxW - 1), y0 \in -1..(MaxH - 1), w \in 1..MaxW, h \in 1..MaxH,
                 f \in Producers, st \in {None} \cup {Some(g) : g \in Producers}}
PlotInit ==
    /\ InitLibrary
    /\ fnCall \in {c \in PlotCalls : c.fn = "plot_data" => c.stored = None}
    /\ local = [before |-> [c \in Canvas |-> 0],
                data |-> IF fnCall.fn = "plot_data" THEN Some(plot_g(fnCall.w, fnCall.h, fnCall.f)) ELSE None]
    /\ ret = None

\* cacher.get_plot(key, g): the stored matrix, or g().
PlotGet ==
    /\ fnCall.fn \in {"plot", "plot_polar"} /\ local.data = None
    /\ local' = [local EXCEPT !.data = Some(plot_closure(fnCall.fn, fnCall.w, fnCall.h,
                                                         IF IsSome(fnCall.stored) THEN Unwrap(fnCall.stored) ELSE fnCall.f))]
    /\ UNCHANGED <<fnCall, ret>>
    /\ LibraryUnchanged

\* self.plot_data(x0, y0, w, h, palette, data)
PlotDraw ==
    /\ fnCall.fn \in {"plot", "plot_polar", "plot_data"} /\ IsSome(local.data) /\ ret = None
    /\ ret' = Some(ImageGraph_plot_data(local.before, fnCall.x0, fnCall.y0, fnCall.w, fnCall.h, Unwrap(local.data), 0))
    /\ UNCHANGED <<fnCall, local>>
    /\ LibraryUnchanged

PlotNext == PlotGet \/ PlotDraw

PlotSpec == PlotInit /\ [][PlotNext]_vars

\* ------------------------------------------------------ loader::parse_hex
\* The characters of a colour string: '#', a hexadecimal digit, a letter
\* that is no digit, the sign '+', and a letter of two bytes in UTF-8.
HexChars == {"#", "a", "g", "+", "e_acute"}
HexStrings == UNION {[1..n -> HexChars] : n \in 0..MaxHexChars}
\* String::len: the length in bytes.
RECURSIVE byte_len(_)
byte_len(x) == IF x = <<>> THEN 0 ELSE (IF Head(x) = "e_acute" THEN 2 ELSE 1) + byte_len(Tail(x))
\* x.chars().skip_while(|&c| c == '#')
RECURSIVE skip_hashes(_)
skip_hashes(x) == IF x # <<>> /\ Head(x) = "#" THEN skip_hashes(Tail(x)) ELSE x
\* u8::from_str_radix(s, 16) on two characters: an optional '+' and digits.
from_str_radix_ok(s) == (s[1] = "a" \/ s[1] = "+") /\ s[2] = "a"

\* parse_hex, the length check.
HexInit ==
    /\ InitLibrary
    /\ fnCall \in {[fn |-> "parse_hex", x |-> x] : x \in HexStrings}
    /\ local = [pc |-> "length", rest |-> <<>>]
    /\ ret = None

HexLength ==
    /\ fnCall.fn = "parse_hex" /\ local.pc = "length"
    /\ LET x == fnCall.x
           n == byte_len(x)
       IN IF n < 6 \/ n > 7 \/ (n = 7 /\ ~(x # <<>> /\ Head(x) = "#"))
          THEN local' = [local EXCEPT !.pc = "returned"] /\ ret' = Some([kind |-> "Err", v |-> "InvalidHexLength"])
          ELSE local' = [pc |-> "take", rest |-> skip_hashes(x)] /\ ret' = ret
    /\ fnCall' = fnCall
    /\ LibraryUnchanged

\* parse_hex: six times iter.next().unwrap().
HexTake ==
    /\ fnCall.fn = "parse_hex" /\ local.pc = "take"
    /\ IF Len(local.rest) < 6
       THEN local' = [local EXCEPT !.pc = "panicked"] /\ ret' = Some([kind |-> "panic", v |-> "unwrap on None"])
       ELSE local' = [local EXCEPT !.pc = "radix"] /\ ret' = ret
    /\ fnCall' = fnCall
    /\ LibraryUnchanged

\* parse_hex: the three u8::from_str_radix(.., 16) and the return.
HexRadix ==
    /\ fnCall.fn = "parse_hex" /\ local.pc = "radix"
    /\ local' = [local EXCEPT !.pc = "returned"]
    /\ ret' = IF \A k \in 0..2 : from_str_radix_ok(SubSeq(local.rest, 2 * k + 1, 2 * k + 2))
              THEN Some([kind |-> "Ok", v |-> SubSeq(local.rest, 1, 6)])
              ELSE Some([kind |-> "Err", v |-> "NonHexCharacters"])
    /\ fnCall' = fnCall
    /\ LibraryUnchanged

HexNext == HexLength \/ HexTake \/ HexRadix

HexSpec == HexInit /\ [][HexNext]_vars

\* ======================================================================
\* Claims
\* ======================================================================
UpTo(n) == [i \in 1..n |-> i]

C2_FifoPerWorker == \A w \in Workers : applied[w] = UpTo(emitted[w] - Len(graphChan[w]))
C2_Witness == /\ \E w \in Workers : Len(applied[w]) >= 2
              /\ \A w \in Workers : Len(applied[w]) >= 1
              /\ \E w \in Workers : pc[w] \notin Finished

\* C3: once every widget worker has finished, the graph host and the cache
\* host eventually leave their loops and the run goes on to save the image;
\* and every run ends (no thread waits forever).
AllWorkersFinished == \A w \in Workers : pc[w] \in Finished
HostsExitedAndSaveReached == /\ graphHostPc = "exited"
                             /\ mainPc \in {"join", "savecache", "exit", "panicked"}
                             /\ anPc \in {"done", "panicked"}
RunEnded == mainPc \in {"exit", "panicked"} /\ anPc \in {"done", "panicked"}
C3_HostsDrainAndExit == (AllWorkersFinished ~> HostsExitedAndSaveReached) /\ <>RunEnded
C3_Witness == /\ RunEnded /\ IsSome(imageFile)
              /\ \A w \in Workers : pc[w] = "done" /\ emitted[w] >= 1
              /\ DOMAIN cacher.plots # {}

\* C4: the image is saved only after the graph host has exited; the saved
\* file holds the image to which every message any worker sent has been
\* applied exactly once; and once the graph host exists, the image changes
\* only by the graph host applying a message it receives.
C4_Saved == IsSome(imageFile) => /\ graphHostPc = "exited"
                                 /\ Unwrap(imageFile) = image
                                 /\ \A w \in Workers : applied[w] = UpTo(emitted[w]) /\ graphChan[w] = <<>>
C4_OnlyHost == graphHostPc # "none" /\ image' # image =>
                  /\ graphHostPc = "process"
                  /\ IsSome(imageFile) = FALSE
                  /\ \E w \in Workers : /\ graphChan[w] # <<>>
                                         /\ image' = GraphApply(image, Head(graphChan[w]))
                                         /\ graphChan'[w] = Tail(graphChan[w])
C4_SaveAfterGraphHost == [](C4_Saved) /\ [][C4_OnlyHost]_vars
C4_Witness == /\ IsSome(imageFile)
              /\ \A w \in Workers : emitted[w] >= 1
              /\ \E w \in Workers : emitted[w] >= 2
              /\ image # [x \in Pixels |-> BgColour]

\* C5: every worker-to-host channel has capacity 0: at every moment a worker
\* has at most one message that no host has taken yet, and between sending a
\* cache state request and receiving its response the worker does nothing
\* (it sends nothing and its own state does not change).
C5_OneInFlight == \A w \in Workers : Len(graphChan[w]) + Len(reqChan[w]) <= 1
C5_WaitsForResponse == \A w \in Workers : pc[w] = "recv" =>
                          \/ /\ pc'[w] = pc[w] /\ cur'[w] = cur[w] /\ opsDone'[w] = opsDone[w] /\ emitted'[w] = emitted[w]
                             /\ Len(graphChan'[w]) <= Len(graphChan[w]) /\ Len(reqChan'[w]) <= Len(reqChan[w])
                          \/ /\ respChan[w] # <<>> /\ respChan'[w] = Tail(respChan[w]) /\ reqChan[w] = <<>>
C5_Rendezvous == [](C5_OneInFlight) /\ [][C5_WaitsForResponse]_vars
C5_Witness == \E w \in Workers, v \in Workers : /\ w # v
                                                 /\ pc[w] = "recv" /\ reqChan[w] # <<>>
                                                 /\ graphChan[v] # <<>>
                                                 /\ opsDone[w] = 2

\* C7: each cache access of a worker sends one state request; after a hit
\* the worker returns the data of the response, has not run the producer and
\* has sent no write; after a miss it has run the producer once and sent one
\* write request carrying the producer's result, which it returns; and the
\* cache host sends a response only to a worker that awaits one, never in
\* answer to a write.
C7_GetPlotProtocol == \A w \in Workers :
    /\ pc[w] # "recv" => respChan[w] = <<>>
    /\ cur[w].kind \in CacheKinds => cur[w].nState = 1
    /\ cur[w].resp = "hit" => /\ cur[w].nProd = 0 /\ cur[w].nWrite = 0
                              /\ cur[w].ret = cur[w].got
                              /\ reqChan[w] = <<>>
    /\ cur[w].resp = "miss" => /\ cur[w].nProd = 1 /\ cur[w].nWrite = 1
                               /\ cur[w].ret = cur[w].f /\ cur[w].wrote = cur[w].ret
                               /\ reqChan[w] # <<>> => reqChan[w] = <<WriteRequest(cur[w], T, Unwrap(cur[w].ret))>>
C7_Witness == \E w \in Workers, v \in Workers : /\ cur[w].resp = "hit" /\ cur[w].kind = "plot"
                                                 /\ cur[v].resp = "miss" /\ cur[v].kind = "plot" /\ reqChan[v] = <<>>

\* C6: with SinglethreadedCacheProvider, a get_* call that misses runs the
\* producer exactly once, stores its result under the key and returns it; a
\* call that hits returns the stored value and does not run the producer;
\* so for every key the producer has run at most once and every call for
\* the key has returned the same value.
StoredFor(c, call) == CASE call.kind = "plot" -> get_plot(c, call.T, call.key)
                        [] call.kind = "boundary" -> get_cam16_boundary(c, call.T)
                        [] OTHER -> get_spectrum(c, call.T, call.ratio)
C6_SinglethreadedGet ==
    /\ lastCall.kind # "none" =>
         /\ lastCall.before = None => lastCall.ran = 1 /\ lastCall.ret = lastCall.f
         /\ IsSome(lastCall.before) => lastCall.ran = 0 /\ lastCall.ret = lastCall.before
         /\ StoredFor(cacher, lastCall) = lastCall.ret
    /\ \A k \in DOMAIN runs : runs[k].n <= 1 /\ Cardinality(runs[k].rets) = 1
C6_Witness == /\ lastCall.kind = "plot" /\ IsSome(lastCall.before) /\ lastCall.f # lastCall.before
              /\ \E k \in DOMAIN runs : runs[k].n = 1 /\ k[1] = "plot" /\ k[2] = lastCall.T /\ k[3] = lastCall.key
              /\ served = 1

\* C8: BigCacher::init never fails: right after it the cacher is the stored
\* one if the cache file was read and decoded and carries VERSION, and
\* otherwise an empty cacher; either way the cacher carries VERSION and the
\* program goes on.
JustInitialised == \/ front = "daemon" /\ cmdPc = "idle" /\ served = 0
                   \/ front = "cli" /\ cmd = "analyse" /\ cmdPc = "T"
IsEmptyCacher(c) == DOMAIN c.plots = {} /\ DOMAIN c.spectra = {} /\ DOMAIN c.cam16_boundaries = {}
C8_InitNeverFails ==
    /\ cacher.version = VERSION
    /\ JustInitialised =>
         /\ result = "none" /\ exitCode = None
         /\ IF cacheFile.kind = "ok" /\ cacheFile.cacher.version = VERSION
            THEN cacher = cacheFile.cacher
            ELSE IsEmptyCacher(cacher)
C8_Witness == /\ JustInitialised
              /\ cacheFile.kind = "ok" /\ cacheFile.cacher.version # VERSION
              /\ ~IsEmptyCacher(cacheFile.cacher)

\* C9 (as stated): in analyse, compute and dither alike, a loaded palette
\* with fewer than 2 colours, more than 256 colours or a duplicated colour
\* never gets a Palette built from it and no metric or image is produced;
\* the command ends as failed.
C9_InvalidPaletteAborts ==
    (cmd \in {"analyse", "compute", "dither"} /\ IsSome(loaded) /\ check_palette(Unwrap(loaded)) # "Ok") =>
        /\ palette = None
        /\ outputs = {}
        /\ cmdPc \in {"finished", "exited"} => result = "failed"

\* C10 (as stated): when the daemon has finished a request whose command
\* line it read, it has written exactly one terminal status to the
\* connection, as the last thing written: OK if the command succeeded, ERR
\* if it failed.
IsTerminalStatus(m) == m.status \in {"OK", "ERR"}
C10_OneTerminalStatus ==
    (front = "daemon" /\ cmdPc = "finished") =>
        /\ Len(SelectSeq(stream, IsTerminalStatus)) = 1
        /\ stream[Len(stream)].status = IF result = "ok" THEN "OK" ELSE "ERR"

\* C11: in daemon mode, over any sequence of requests, every analyse request
\* that succeeded has called cacher.save() (once, after the analysis), and a
\* request aborted with ERR has neither called cacher.save() nor changed the
\* shared BigCacher; the cache file and the cacher change in no other step.
C11_Finished ==
    (front = "daemon" /\ cmdPc = "finished") =>
        /\ (cmd = "analyse" /\ result = "ok") => reqLog.saves = 1
        /\ result = "failed" => /\ reqLog = NoLog
                                /\ stream[Len(stream)].status = "ERR"
C11_OnlyLogged ==
    front = "daemon" =>
        /\ cacheFile' # cacheFile => reqLog'.saves = reqLog.saves + 1 /\ result' = "ok" /\ cmd = "analyse"
        /\ (cacher' # cacher /\ cmdPc # "start") => reqLog'.writes /\ cmd = "analyse" /\ result = "none"
C11_SaveAfterAnalyse == [](C11_Finished) /\ [][C11_OnlyLogged]_vars
C11_Witness == /\ front = "daemon" /\ cmdPc = "finished" /\ served >= 1
               /\ cmd = "analyse" /\ result = "ok"
               /\ reqLog.writes /\ reqLog.saves = 1
               /\ cacheFile.kind = "ok" /\ cacheFile.cacher = cacher

\* C12 (as stated): every command-line run ends with exit code 0 when the
\* command succeeded and with exit code 1 when it failed for any reason
\* (invalid input, undecodable image, failure to write the output file).
C12_ExitCodes ==
    (front = "cli" /\ IsSome(exitCode)) => Unwrap(exitCode) = (IF result = "ok" THEN 0 ELSE 1)

\* C13 (as stated): when ImageGraph::save has returned and its primary PNG
\* write succeeded, the output file holds a complete PNG of the image,
\* whichever step of the ICC splice failed, and save returned Ok.
C13_PngAlwaysWins ==
    (fnCall.fn = "save" /\ local.pc = "returned" /\ local.written) =>
        /\ ret = Some("Ok")
        /\ local.file.kind = "png" /\ local.file.image = Some(fnCall.graph.buffer)

\* C14: Palette::is_acyclic() visits all unordered pairs in ascending
\* distance and returns false if and only if some pair (i, j) is visited
\* whose ends already lie in the same component (are joined by a path of
\* pairs visited before) while no third index k has both (i, k) and (k, j)
\* visited before; otherwise it returns true.
RECURSIVE Component(_, _, _)
Component(S, E, n) == LET S2 == S \cup {v \in 1..n : \E u \in S : {u, v} \in E}
                      IN IF S2 = S THEN S ELSE Component(S2, E, n)
VisitedBefore(sp, t) == {{sp[u].i, sp[u].j} : u \in 1..(t - 1)}
CycleWithoutTriangleAt(sp, t, n) ==
    LET i == sp[t].i
        j == sp[t].j
        E == VisitedBefore(sp, t)
    IN /\ j \in Component({i}, E, n)
       /\ ~ \E k \in (1..n) \ {i, j} : {i, k} \in E /\ {k, j} \in E
UnorderedPairs(n) == {pr \in SUBSET (1..n) : Cardinality(pr) = 2}
C14_IsAcyclic ==
    fnCall.fn = "is_acyclic" =>
        LET n == Len(fnCall.cam16)
            sp == sorted_pairs(fnCall.cam16)
        IN /\ {{sp[t].i, sp[t].j} : t \in 1..Len(sp)} = UnorderedPairs(n)
           /\ Len(sp) = Cardinality(UnorderedPairs(n))
           /\ \A t \in 1..Len(sp) : sp[t].d = CAM16UCS_dist(fnCall.cam16[sp[t].i], fnCall.cam16[sp[t].j])
           /\ \A t \in 1..(Len(sp) - 1) : sp[t].d <= sp[t + 1].d
           /\ ret = Some(~ \E t \in 1..Len(sp) : CycleWithoutTriangleAt(sp, t, n))
C14_Witness == /\ fnCall.fn = "is_acyclic" /\ ret = Some(FALSE)
               /\ Len(fnCall.cam16) = 4

\* C19: for every palette with n >= 2, Palette::new selects role indices
\* with bl # bg, bl # fg and bg # tl.
C19_RolesDistinct ==
    (fnCall.fn = "Palette::new" /\ Len(fnCall.cam16) >= 2) =>
        LET r == Unwrap(ret)
        IN /\ {r.bl, r.bg, r.fg, r.tl} \subseteq 1..Len(fnCall.cam16)
           /\ r.bl # r.bg /\ r.bl # r.fg /\ r.bg # r.tl
C19_Witness == /\ fnCall.fn = "Palette::new" /\ Len(fnCall.cam16) = 2
               /\ fnCall.cam16[1] = fnCall.cam16[2]
               /\ fnCall.favoured = Unwrap(ret).bl

\* C20: useful_mixes(max) returns exactly min(max, n(n-1)/2) pairs (i, j)
\* with i < j, none repeated, and each returned pair has the greatest
\* current score among the pairs not chosen before it, a pair's current
\* score being the distance of its midpoint to the nearest palette entry
\* plus the sum of the distances of its midpoint to the midpoints of the
\* pairs chosen before.
RECURSIVE SumMidDist(_, _, _, _)
SumMidDist(cam16, pr, chosen, s) ==
    IF s = 0 THEN 0
    ELSE CAM16UCS_dist(mix(cam16, pr.i, pr.j), mix(cam16, chosen[s].i, chosen[s].j)) + SumMidDist(cam16, pr, chosen, s - 1)
CurrentScore(cam16, pr, chosen, s) == score_added(cam16, mix(cam16, pr.i, pr.j)) + SumMidDist(cam16, pr, chosen, s)
OrderedPairs(n) == {[i |-> i, j |-> j] : i \in 1..n, j \in 1..n} \cap {pr \in [i : 1..n, j : 1..n] : pr.i < pr.j}
C20_UsefulMixes ==
    fnCall.fn = "useful_mixes" =>
        LET c == fnCall.cam16
            n == Len(c)
            m == Unwrap(ret)
        IN /\ Len(m) = Min(fnCall.max, (n * (n - 1)) \div 2)
           /\ \A t \in 1..Len(m) : m[t] \in OrderedPairs(n)
           /\ \A t \in 1..Len(m), u \in 1..Len(m) : t # u => m[t] # m[u]
           /\ \A t \in 1..Len(m) : \A q \in OrderedPairs(n) \ {m[u] : u \in 1..(t - 1)} :
                CurrentScore(c, q, m, t - 1) <= CurrentScore(c, m[t], m, t - 1)
C20_Witness == /\ fnCall.fn = "useful_mixes" /\ fnCall.max = 3 /\ Len(fnCall.cam16) = 4
               /\ Len(Unwrap(ret)) = 3
               /\ \E q \in OrderedPairs(4) : CurrentScore(fnCall.cam16, q, <<>>, 0) < CurrentScore(fnCall.cam16, Unwrap(ret)[1], <<>>, 0)
               /\ \E q \in OrderedPairs(4) \ {Unwrap(ret)[1], Unwrap(ret)[2]} :
                    /\ CurrentScore(fnCall.cam16, q, <<>>, 0) > CurrentScore(fnCall.cam16, Unwrap(ret)[3], <<>>, 0)

\* C15: for every n >= 0, ThresholdMatrix::bayer(n) is a 2^n x 2^n matrix
\* in which every rank 0 .. 4^n - 1 occurs exactly once, built by the
\* recursive quadrant rule (NW 4k, NE 4k+2, SW 4k+3, SE 4k+1); for n = 2 its
\* first row is 0, 8, 2, 10.
RECURSIVE Pow(_, _)
Pow(b, e) == IF e = 0 THEN 1 ELSE b * Pow(b, e - 1)
RECURSIVE QuadrantRule(_, _)
QuadrantRule(m, d) ==
    IF d = 1 THEN m[<<0, 0>>] = 0
    ELSE LET q == d \div 2
         IN /\ \A c \in Cells(q, q) : /\ m[c] % 4 = 0
                                       /\ m[<<c[1] + q, c[2]>>] = m[c] + 2
                                       /\ m[<<c[1], c[2] + q>>] = m[c] + 3
                                       /\ m[<<c[1] + q, c[2] + q>>] = m[c] + 1
            /\ QuadrantRule([c \in Cells(q, q) |-> m[c] \div 4], q)
IsPermutationMatrix(m, w, h) == /\ DOMAIN m = Cells(w, h)
                                /\ {m[c] : c \in Cells(w, h)} = 0..(w * h - 1)
C15_Bayer ==
    (fnCall.fn = "bayer" /\ local.pc = "returned") =>
        LET m == Unwrap(ret)
            d == Pow(2, fnCall.n)
        IN /\ m.w = d /\ m.h = d
           /\ IsPermutationMatrix(m.order, d, d)
           /\ QuadrantRule(m.order, d)
           /\ fnCall.n = 2 => <<m.order[<<0, 0>>], m.order[<<1, 0>>], m.order[<<2, 0>>], m.order[<<3, 0>>]>> = <<0, 8, 2, 10>>
C15_Witness == fnCall.fn = "bayer" /\ local.pc = "returned" /\ fnCall.n = 2 /\ Unwrap(ret).order[<<3, 3>>] = 5

\* C16: for every w, h >= 1 and whatever the initial random binary pattern,
\* ThresholdMatrix::bluenoise(w, h) returns a matrix that contains every
\* rank 0 .. w*h - 1 exactly once; its first loop ends (within w*h rounds
\* at the sizes examined), and the ranking loops are bounded.
C16_BlueNoise ==
    fnCall.fn = "bluenoise" =>
        /\ local.rounds <= fnCall.w * fnCall.h
        /\ local.pc = "voids" => local.rank <= fnCall.w * fnCall.h
        /\ local.pc = "returned" =>
             LET m == Unwrap(ret)
             IN m.w = fnCall.w /\ m.h = fnCall.h /\ IsPermutationMatrix(m.order, fnCall.w, fnCall.h)
C16_Witness == /\ fnCall.fn = "bluenoise" /\ local.pc = "returned"
               /\ fnCall.w = 3 /\ fnCall.h = 2
               /\ local.ones = 3 /\ local.rounds = 2

\* C17: for every palette and every dithering method (none, Bayer, white
\* noise, blue noise), dithering an image whose every pixel is exactly a
\* palette colour returns that same image.
PaletteColours(cam16) == {cam16[i] : i \in 1..Len(cam16)}
C17_PaletteImageKept ==
    (fnCall.fn = "dither" /\ \A x \in Pixels : fnCall.input[x] \in {Some(c) : c \in PaletteColours(fnCall.cam16)}) =>
        Unwrap(ret) = fnCall.input

\* C18: with DitheringMethod::None every opaque pixel c is output as
\* palette.nearest(c) of its unmodified colour, with no lightness offset.
C18_NoneOnlyReduces ==
    (fnCall.fn = "dither" /\ fnCall.method.kind = "None") =>
        \A x \in Pixels : fnCall.input[x] # None =>
            Unwrap(ret)[x] = Some(fnCall.cam16[Palette_nearest(fnCall.cam16, Unwrap(fnCall.input[x]), 1)])

\* C25 (as stated): in is_acyclic, (i, j) and (j, i) are marked connected
\* only when the visited pair joined two different components, so the
\* marked pairs are as many as the joins made.
C25_MarkedOnlyOnJoin ==
    fnCall.fn = "is_acyclic" =>
        Cardinality(local.connected) = Len(fnCall.cam16) + 2 * (Len(fnCall.cam16) - Len(local.clusters))

\* C25 (amended): in is_acyclic, (i, j) and (j, i) are marked connected
\* after every visited pair that does not end the function, whether the
\* pair joined two components or its ends were already in one component and
\* had a 2-hop witness: connected holds the reflexive pairs and exactly the
\* pairs visited so far.
C25_MarkedWhenVisited ==
    fnCall.fn = "is_acyclic" =>
        local.connected = {<<i, i>> : i \in 1..Len(fnCall.cam16)}
                          \cup {<<local.pairs[u].i, local.pairs[u].j>> : u \in 1..(local.t - 1)}
                          \cup {<<local.pairs[u].j, local.pairs[u].i>> : u \in 1..(local.t - 1)}
C25_Witness ==
    /\ fnCall.fn = "is_acyclic" /\ local.pc = "returned" /\ ret = Some(TRUE)
    /\ Len(fnCall.cam16) = 4
    /\ Len(local.clusters) = 1
    /\ Cardinality(local.connected) = 16

\* C28: for every palette of 2 or 3 colours, whatever their pairwise
\* distances and the order of the entries, is_acyclic() returns true.
C28_SmallPalettesAcyclic ==
    (fnCall.fn = "is_acyclic" /\ Len(fnCall.cam16) \in {2, 3}) => ret = Some(TRUE)
C28_Witness ==
    /\ fnCall.fn = "is_acyclic" /\ Len(fnCall.cam16) = 3 /\ ret = Some(TRUE)
    /\ CAM16UCS_dist(fnCall.cam16[1], fnCall.cam16[2]) > CAM16UCS_dist(fnCall.cam16[2], fnCall.cam16[3])
    /\ CAM16UCS_dist(fnCall.cam16[2], fnCall.cam16[3]) > 0

\* C27: under every interleaving of workers, a response in flight to a
\* worker answers that worker's own pending state request: the worker is
\* waiting for it, its variant matches the request (Plot for PlotState,
\* CAM16Boundary for CAM16BoundaryState, Spectrum for SpectrumState) and it
\* holds what the cacher has for the requested key; no worker panics.
C27_OwnResponse ==
    \A w \in Workers :
        /\ pc[w] # "panicked"
        /\ respChan[w] # <<>> =>
             /\ pc[w] = "recv"
             /\ Len(respChan[w]) = 1
             /\ respChan[w][1].type = ExpectedResponse(cur[w])
             /\ Some(respChan[w][1]) = CacheAnswer(cacher, StateRequest(cur[w], T))
C27_Witness ==
    /\ respChan[1] # <<>> /\ respChan[1][1].type = "CAM16Boundary" /\ IsSome(respChan[1][1].data)
    /\ pc[2] = "recv" /\ cur[2].kind = "spectrum" /\ reqChan[2] # <<>>

\* C30: in multi-threaded analyse the cache is saved only after the cache
\* host has left its loop (no connection remains) and the analysis thread
\* has been joined; a request leaves a worker's channel only by being
\* applied to the BigCacher, no entry of the BigCacher is ever removed, and
\* none is in flight at the save, so the saved cache is the BigCacher with
\* every entry written during the run.
C30_AtSave ==
    mainPc \in {"savecache", "exit"} =>
        /\ anPc = "done"
        /\ cacheConns = <<>>
        /\ \A w \in Workers : pc[w] = "done" /\ reqChan[w] = <<>> /\ respChan[w] = <<>>
C30_Step ==
    /\ cacheFile' # cacheFile => mainPc = "savecache" /\ cacheFile' = [kind |-> "ok", cacher |-> cacher]
    /\ \A w \in Workers : Len(reqChan'[w]) < Len(reqChan[w]) => cacher' = CacheApply(cacher, Head(reqChan[w]))
    /\ DOMAIN cacher.plots \subseteq DOMAIN cacher'.plots
    /\ DOMAIN cacher.spectra \subseteq DOMAIN cacher'.spectra
    /\ DOMAIN cacher.cam16_boundaries \subseteq DOMAIN cacher'.cam16_boundaries
C30_SaveHoldsAllWrites == [](C30_AtSave) /\ [][C30_Step]_vars
C30_Witness ==
    /\ mainPc = "exit" /\ cacheFile.kind = "ok"
    /\ <<5500, "RectJCh">> \in DOMAIN cacheFile.cacher.plots
    /\ <<5500, 8>> \in DOMAIN cacheFile.cacher.spectra

\* C24: when a widget worker panics, at any point of its run (also between
\* its state request and the response), no image is saved and the main
\* thread never reaches the saving of the cache and the normal exit; and
\* every run ends: the process exits or the main thread panics, so neither
\* host waits forever.
WorkerAborted == \E w \in Workers : pc[w] = "panicked"
ProcessEnded == mainPc \in {"exit", "panicked"}
C24_NoImageAfterAbort == WorkerAborted => imageFile = None /\ mainPc \notin {"savecache", "exit"}
C24_AbortEndsInFailure == [](C24_NoImageAfterAbort) /\ <>ProcessEnded
C24_Witness ==
    /\ mainPc = "panicked" /\ anPc = "killed" /\ imageFile = None
    /\ \E w \in Workers : pc[w] = "panicked" /\ respChan[w] # <<>>
    /\ \E w \in Workers : pc[w] = "killed"

\* C23: when no two widgets write the same pixel, the image the
\* multi-threaded analyse saves is, for every interleaving of the workers
\* and the hosts, the image single-threaded analyse draws from the same
\* cache file with the same widgets.
PlotDataFor(file, key) == LET stored == get_plot(BigCacher_init(file), 5500, key)
                          IN IF IsSome(stored) THEN Unwrap(stored) ELSE KeyProducer(key)
PixelsWritten(file, w, prog) ==
    UNION {IF prog[i].kind = "draw" THEN {DrawPixel(w)}
           ELSE IF prog[i].kind = "plot" THEN {x \in Pixels : IsSome(PlotDataFor(file, prog[i].key)[x])}
           ELSE {} : i \in 1..Len(prog)}
NoSharedPixel == \A v, w \in Workers :
                   v # w => PixelsWritten(cacheFile, v, layout.prog[v]) \cap PixelsWritten(cacheFile, w, layout.prog[w]) = {}
ImageSaved == anPc = "done" /\ mainPc # "exit"
C23_SameImage ==
    (ImageSaved /\ NoSharedPixel) =>
        imageFile = Some(analyse_singlethreaded(layout.prog, cacheFile, [x \in Pixels |-> 0]).img)
C23_Witness ==
    /\ ImageSaved /\ NoSharedPixel /\ IsSome(imageFile)
    /\ layout.prog[1] = <<DrawCall>>
    /\ layout.prog[2] = <<DrawCall, PlotCall("Spectrum")>>
    /\ IsSome(get_plot(BigCacher_init(cacheFile), 5500, "Spectrum"))
    /\ Unwrap(imageFile)[2] = 2

\* C21: compute_spectrum with ratio 0.0 pushes only samples of the linear
\* mix of the two endpoints (none from the monochromatic locus) and returns
\* 800 of them.
C21_RatioZeroAllMix ==
    (fnCall.fn = "compute_spectrum" /\ fnCall.ratio = 0) =>
        /\ \A i \in 1..Len(local.data) : local.data[i].branch = "mix"
        /\ IsSome(ret) => Len(Unwrap(ret)) = SpectrumSamples

\* C22 as stated: for the palette of black and white, compute --all prints
\* iss,NaN and acyclic,true.
Black == [J |-> 0, a |-> 0, b |-> 0]
White == [J |-> 2 * MaxCoord, a |-> 0, b |-> 0]
AllMetricsOf(cam16) == fnCall.fn = "main_compute" /\ fnCall.cam16 = cam16 /\ fnCall.enabled = {"iss", "acyclic"} /\ IsSome(ret)
C22_BlackWhiteNaN == AllMetricsOf(<<Black, White>>) => ret = Some(<<<<"iss", NaN>>, <<"acyclic", TRUE>>>>)
\* C22 as amended: for the palette of black and white, as for every palette
\* of two different colours, compute --all prints iss,0.63 and acyclic,true;
\* iss,NaN is printed when the two colours are the same.
C22_TwoColours ==
    \A x, y \in CamColours :
        AllMetricsOf(<<x, y>>) =>
            ret = Some(<<<<"iss", IF x = y THEN NaN ELSE Decimal(63)>>, <<"acyclic", TRUE>>>>)
C22_Witness == AllMetricsOf(<<Black, White>>) /\ ret = Some(<<<<"iss", Decimal(63)>>, <<"acyclic", TRUE>>>>)

\* C26: plot, plot_polar and plot_data leave every pixel as it was that is
\* outside the rectangle x0..x0+w-1, y0..y0+h-1 or whose sample is None; for
\* plot_polar the pixels of the rectangle outside the inscribed disk are
\* among them.
Plotted == fnCall.fn \in {"plot", "plot_polar", "plot_data"} /\ IsSome(ret)
KeepsColour(c) ==
    LET i == c[1] - fnCall.x0
        j == c[2] - fnCall.y0
        inside == i \in 0..(fnCall.w - 1) /\ j \in 0..(fnCall.h - 1)
    IN \/ ~inside
       \/ Unwrap(local.data)[<<i, j>>] = None
       \/ fnCall.fn = "plot_polar" /\ ~in_disk(fnCall.w, fnCall.h, i, j)
C26_OnlySomeSamples == Plotted => \A c \in Canvas : KeepsColour(c) => Unwrap(ret)[c] = local.before[c]
C26_Witness ==
    /\ Plotted /\ fnCall.fn = "plot_polar" /\ fnCall.f.where = "all" /\ fnCall.stored = None
    /\ fnCall.x0 = 0 /\ fnCall.y0 = 0 /\ fnCall.w = MaxW /\ fnCall.h = MaxH
    /\ Unwrap(ret)[<<0, 0>>] = 0
    /\ \E c \in Canvas : Unwrap(ret)[c] = fnCall.f.colour

\* C29: parse_hex returns Ok exactly for six hexadecimal digits with at most
\* one '#' before them, and for every other string an error value,
\* InvalidHexLength or NonHexCharacters; it never panics.
SixHexDigits(x) == Len(x) = 6 /\ \A k \in 1..6 : x[k] = "a"
WellFormedHex(x) == SixHexDigits(x) \/ (Len(x) = 7 /\ x[1] = "#" /\ SixHexDigits(Tail(x)))
C29_ParseHexTotal ==
    (fnCall.fn = "parse_hex" /\ IsSome(ret)) =>
        /\ Unwrap(ret).kind # "panic"
        /\ Unwrap(ret).kind = "Ok" <=> WellFormedHex(fnCall.x)
        /\ Unwrap(ret).kind = "Err" => Unwrap(ret).v \in {"InvalidHexLength", "NonHexCharacters"}

====
